---- MODULE Spec2Model ----
(***************************************************************************)
(* CppRTOS kernel core: the scheduler (src/rtos/kernel/scheduler.cpp), the *)
(* task API (src/rtos/kernel/task.cpp) and the mutexes                     *)
(* (src/rtos/kernel/mutex.cpp) as a state machine.                         *)
(*                                                                         *)
(* A task control block is identified by its heap address.  Addr is the    *)
(* set of addresses operator new can return for a TCB, IdleTcb is the      *)
(* scheduler's built-in idle_task_tcb and NULLPTR is nullptr.  An address  *)
(* that was deleted can be handed out again by a later new, so a pointer   *)
(* that outlived its TCB (current_task after Task::destroy) can come to    *)
(* alias a new task.                                                       *)
(***************************************************************************)
EXTENDS Integers, Sequences, FiniteSets, TLC

\* ---------------------------------------------------------------- bounds
\* Number of distinct heap addresses a TCB can be allocated at.
MaxAddr == 3
\* Number of those addresses the specifications with two tasks allocate from.
MaxSchedAddr == 2
\* Width of TickType_t in the model: tick_count is kept modulo 2^TickBits
\* (uint32_t in the source, rtos_types.h:42).
TickBits == 2
\* Largest argument passed to delay().
MaxDelay == 2
\* The round-robin quantum the model runs with.  The constructor sets
\* time_slice_ticks to 10 (scheduler.cpp:22) and nothing changes it; the
\* scheduler is explored with a shorter quantum.
ShortSlice == 2
\* Largest finite timeout passed to lock().
MaxTimeout == 1
\* Deepest nesting of RecursiveMutexAPI::lock by one task.
MaxRecursion == 2
CountBits == 2
MaxSemCount == 2
MaxItems == 2
MaxMsg == 3
MaxTimers == 2
HandleBits == 2
ExpiryBits == 3
MaxPeriod == 2
MaxTicks == 4
\* Size of the arena of the RTOSHeap in 8-byte words.
HeapWords == 20
\* Width of size_t in the model: sizes are kept modulo 2^SizeBits.
SizeBits == 8
\* POOL_SIZE of the MemoryPool.
PoolSize == 4
\* Largest request passed to malloc and realloc, in 8-byte words.
MaxRequest == 3
\* Numbers of successful allocations and of frees the program makes.
MaxAllocs == 5
MaxFrees == 4

\* ------------------------------------------------------ program constants
MAX_TASKS == 16
TIME_SLICE_TICKS == 10
TASK_STACK_SIZE_MIN == 256
TASK_STACK_SIZE_DEFAULT == 512
TASK_STACK_SIZE_MAX == 2048

PRIORITY_IDLE == 0
PRIORITY_LOW == 1
PRIORITY_NORMAL == 2
PRIORITY_HIGH == 3
PRIORITY_REALTIME == 4

TASK_READY == "READY"
TASK_RUNNING == "RUNNING"
TASK_BLOCKED == "BLOCKED"
TASK_SUSPENDED == "SUSPENDED"
TASK_DELETED == "DELETED"
\* The fields of a TCB that no code has written yet (TaskControlBlock() {}
\* initialises nothing).
UNINIT == "UNINIT"

SCHEDULER_ROUND_ROBIN == "ROUND_ROBIN"
SCHEDULER_PRIORITY == "PRIORITY"
SCHEDULER_COOPERATIVE == "COOPERATIVE"
SchedulerPolicy == {SCHEDULER_ROUND_ROBIN, SCHEDULER_PRIORITY, SCHEDULER_COOPERATIVE}

RTOS_OK == "OK"
RTOS_ERR_INVALID_PARAM == "ERR_INVALID_PARAM"
RTOS_ERR_TIMEOUT == "ERR_TIMEOUT"
RTOS_ERR_NOT_FOUND == "ERR_NOT_FOUND"
RTOS_ERR_ALREADY_EXISTS == "ERR_ALREADY_EXISTS"
RTOS_ERR_BUSY == "ERR_BUSY"
RTOS_ERR_NOT_READY == "ERR_NOT_READY"
RTOS_ERR_FULL == "ERR_FULL"
RTOS_ERR_EMPTY == "ERR_EMPTY"
NoResult == "none"

\* enum SemaphoreType (semaphore.h).
SEMAPHORE_BINARY == "BINARY"
SEMAPHORE_COUNTING == "COUNTING"

TickWrap == 2 ^ TickBits
\* UINT32_MAX, the "wait forever" timeout.
TickMax == TickWrap - 1

NULLPTR == -1
IdleTcb == 0
Addr == 1 .. MaxAddr
SchedAddr == 1 .. MaxSchedAddr
Tcb == Addr \cup {IdleTcb}

\* Inputs of Task::create.
TaskPriorities == {PRIORITY_IDLE, PRIORITY_NORMAL, PRIORITY_HIGH}
StackSizes == {TASK_STACK_SIZE_MIN - 1, TASK_STACK_SIZE_DEFAULT, TASK_STACK_SIZE_MAX + 1}

VARIABLES
    is_initialized,   \* Scheduler::is_initialized
    is_running,       \* Scheduler::is_running
    policy,           \* Scheduler::policy
    tick_count,       \* Scheduler::tick_count
    time_slice_ticks, \* Scheduler::time_slice_ticks
    current_task,     \* Scheduler::current_task (an address, IdleTcb or NULLPTR)
    task_list,        \* Scheduler::task_list, registration order
    live,             \* the TCB addresses currently allocated (new, not yet deleted)
    state,            \* TaskControlBlock::state, per address
    priority,         \* TaskControlBlock::priority
    time_slice,       \* TaskControlBlock::time_slice
    blocked_until,    \* TaskControlBlock::blocked_until
    mtx,              \* the Mutex objects: one Mutex, one RecursiveMutex::base_mutex
    pc,               \* per task: where it stands inside a lock call
    call,             \* per task: the locals of the lock call it is in
    ret,              \* what the last lock, tryLock or unlock call that returned gave
    delay_left,       \* history: ticks still due of the delay a task is in (0: none)
    holders,          \* history: the tasks MutexAPI::lock returned RTOS_OK to and
                      \*          that have not unlocked since
    waitq,            \* history: the tasks spinning in MutexAPI::lock, oldest first
    wait_left,        \* history: ticks still due of the finite timeout of the lock
                      \*          call a task waits in (0: none)
    sem,              \* the Semaphore: type, count, max_count
    queue,            \* the Queue (of a MessageQueue): buffer, head, tail, count
    item,             \* the value the last successful dequeue or receive handed out
    q_hist,           \* history: the values enqueued and not yet dequeued, oldest first
    sent,             \* history: the number of values handed to enqueue and send so far
    timers,           \* TimerManager::timers, the slots 1 .. MaxTimers
    timer_count,      \* TimerManager::timer_count
    next_handle,      \* TimerManager::next_handle
    initialized,      \* TimerManager::initialized
    total_callbacks,  \* TimerManager::total_callbacks
    missed_callbacks, \* TimerManager::missed_callbacks
    handle_ret,       \* the handle the last create returned
    watch,            \* history, per slot: ticks and callback invocations since the
                      \*          start or reset that last set the timer going
    arena,            \* the buffer of the RTOSHeap, one value per 8-byte word
    first_block,      \* RTOSHeap::first_block
    last_block,       \* RTOSHeap::last_block
    stats,            \* RTOSHeap::stats
    heap_status,      \* "ok", or how the last call on the heap ended otherwise
    heap_ret,         \* the pointer the last malloc, realloc or calloc returned
    heap_log,         \* the last message free() printed
    outstanding,      \* history: the pointers returned and not yet freed
    pool,             \* MemoryPool::pool, per slot: next_free and allocated
    free_list,        \* MemoryPool::free_list
    allocated_count,  \* MemoryPool::allocated_count
    pool_ret,         \* the pointer the last allocate returned
    pool_gone,        \* history: the pointer last passed to deallocate, and
                      \* whether the call returned its slot to the free list
    lock_flag,        \* RTOSHeap::lock_flag
    heap_pc,          \* per caller: where it stands inside a call on the heap
    heap_call         \* per caller: the operation it is in and its argument

schedVars == <<is_initialized, is_running, policy, tick_count, time_slice_ticks,
               current_task, task_list, live, state, priority, time_slice, blocked_until>>
mutexVars == <<mtx, pc, call, ret, holders, waitq, wait_left>>
semVars == <<sem>>
queueVars == <<queue, item, q_hist, sent>>
timerVars == <<timers, timer_count, next_handle, initialized, total_callbacks,
               missed_callbacks, handle_ret, watch>>
heapVars == <<arena, first_block, last_block, stats, heap_status, heap_ret, heap_log,
              outstanding>>
poolVars == <<pool, free_list, allocated_count, pool_ret, pool_gone>>
lockVars == <<lock_flag, heap_pc, heap_call>>
memVars == <<heapVars, poolVars, lockVars>>
objVars == <<semVars, queueVars, timerVars, memVars>>
vars == <<schedVars, mutexVars, delay_left, objVars>>

Range(s) == {s[i] : i \in 1 .. Len(s)}
Min(S) == CHOOSE x \in S : \A y \in S : x <= y

\* A pointer the scheduler may dereference: the idle TCB or an allocated TCB.
Valid(t) == t = IdleTcb \/ t \in live
\* current_task points at a TCB that Task::destroy has deleted.
Dangling(t) == t # NULLPTR /\ ~Valid(t)

\* The scheduler's view that yield() works on: current_task, the state and
\* the time_slice field of every TCB.
View(cur, st, ts) == [cur |-> cur, st |-> st, ts |-> ts]

\* StaticVector erase(i): the element at index i is removed and the later
\* ones move down by one.
EraseAt(s, i) == [k \in 1 .. Len(s) - 1 |-> IF k < i THEN s[k] ELSE s[k + 1]]

\* The round-robin branch of Scheduler::selectNextTask (scheduler.cpp:123-148):
\* the first task of ready that follows cur in task_list, else the first one
\* from the start of the list up to and including cur, else the idle task.
RoundRobinNext(cur, ready) ==
    LET n == Len(task_list)
        pos == {i \in 1 .. n : task_list[i] = cur}
        after == IF pos = {} THEN {}
                 ELSE {i \in 1 .. n : i > Min(pos) /\ task_list[i] \in ready}
        last == IF pos = {} THEN n ELSE Min(pos)
        wrap == {i \in 1 .. last : task_list[i] \in ready}
    IN  IF after # {} THEN task_list[Min(after)]
        ELSE IF wrap # {} THEN task_list[Min(wrap)]
        ELSE IdleTcb

\* The priority branch of Scheduler::selectNextTask (scheduler.cpp:151-167):
\* the first task of ready in task_list whose priority is the greatest and
\* above PRIORITY_IDLE, else the idle task.
PriorityNext(ready) ==
    LET n == Len(task_list)
        cand == {i \in 1 .. n : /\ task_list[i] \in ready
                                /\ priority[task_list[i]] > PRIORITY_IDLE}
        best == {i \in cand : \A j \in cand :
                     priority[task_list[j]] <= priority[task_list[i]]}
    IN  IF cand # {} THEN task_list[Min(best)] ELSE IdleTcb

\* selectNextTask with the READY test dropped: any task that is not RUNNING
\* is taken.
selectNextTask_NotRunning(cur, st) ==
    LET ready == {t \in Tcb : st[t] # TASK_RUNNING}
    IN  IF policy = SCHEDULER_ROUND_ROBIN THEN RoundRobinNext(cur, ready)
        ELSE IF policy = SCHEDULER_PRIORITY THEN PriorityNext(ready)
        ELSE IdleTcb

\* selectNextTask with the cooperative policy rotating like round-robin.
selectNextTask_CoopRotates(cur, st) ==
    LET ready == {t \in Tcb : st[t] = TASK_READY}
    IN  IF policy = SCHEDULER_PRIORITY THEN PriorityNext(ready)
        ELSE RoundRobinNext(cur, ready)

\* Scheduler::selectNextTask with current_task = cur and the states st.
selectNextTask(cur, st) ==
    LET ready == {t \in Tcb : st[t] = TASK_READY}
    IN  IF policy = SCHEDULER_ROUND_ROBIN THEN RoundRobinNext(cur, ready)
        ELSE IF policy = SCHEDULER_PRIORITY THEN PriorityNext(ready)
        ELSE IdleTcb

\* switchContext that leaves the previous task RUNNING.
switchContext_KeepsPrev(v, next) ==
    View(next, [v.st EXCEPT ![next] = TASK_RUNNING],
         [v.ts EXCEPT ![next] = time_slice_ticks])

\* switchContext that does not reload the time slice of the incoming task.
switchContext_NoReload(v, next) ==
    LET prev == v.cur
        st1 == IF prev # NULLPTR /\ Valid(prev) /\ v.st[prev] = TASK_RUNNING
               THEN [v.st EXCEPT ![prev] = TASK_READY]
               ELSE v.st
    IN  View(next, [st1 EXCEPT ![next] = TASK_RUNNING], v.ts)

\* Scheduler::switchContext(next).  The write to prev_task->state lands in
\* freed memory when current_task dangles, and is lost.
switchContext(v, next) ==
    LET prev == v.cur
        st1 == IF prev # NULLPTR /\ Valid(prev) /\ v.st[prev] = TASK_RUNNING
               THEN [v.st EXCEPT ![prev] = TASK_READY]
               ELSE v.st
    IN  View(next, [st1 EXCEPT ![next] = TASK_RUNNING],
             [v.ts EXCEPT ![next] = time_slice_ticks])

\* Scheduler::yield.
yield(v) ==
    IF ~is_running THEN v
    ELSE LET next_task == selectNextTask(v.cur, v.st)
         IN  IF next_task # v.cur THEN switchContext(v, next_task) ELSE v

Here == View(current_task, state, time_slice)

\* A Mutex as its constructor leaves it (mutex.h:14).
NewMutex == [is_locked |-> FALSE, owner |-> NULLPTR, recursive_count |-> 0]
MutexKinds == {"Mutex", "RecursiveMutex"}
\* The values sent through the queue, each once and in this order, and the content of a buffer slot that
\* was never written (queue.h:12: the constructor leaves buffer alone).
Msgs == 1 .. MaxMsg
NoMsg == 0
\* A Queue as its constructor leaves it (queue.h:18).
NewQueue == [buffer |-> [i \in 0 .. MaxItems - 1 |-> NoMsg], head |-> 0, tail |-> 0, count |-> 0]
\* enum TimerType and enum TimerState (timer.h:12-22).
TIMER_ONE_SHOT == "ONE_SHOT"
TIMER_PERIODIC == "PERIODIC"
TIMER_STOPPED == "STOPPED"
TIMER_RUNNING == "RUNNING"
\* The slots of TimerManager::timers, and a slot after memset(.., 0, ..)
\* (timer.cpp:16, 36, 107); callback is TRUE for a non-null function pointer.
Slots == 1 .. MaxTimers
ZeroTimer == [handle |-> 0, type |-> TIMER_ONE_SHOT, state |-> TIMER_STOPPED,
              period_ticks |-> 0, remaining_ticks |-> 0, callback |-> FALSE,
              auto_reload |-> FALSE, expiry_count |-> 0]
Unwatched == [tracked |-> FALSE, n |-> 0, fired |-> 0, by |-> "none"]
\* No Semaphore has been created yet.
NoSemaphore == [type |-> "none", count |-> 0, max_count |-> 0]
NoCall == [kind |-> "Mutex", timeout |-> 0, start_tick |-> 0]

\* sizeof(HeapBlock) on an LP64 build: size_t size at offset 0, bool is_free at
\* 8, HeapBlock* next at 16, prev at 24, uint32_t magic at 32 (rtos_heap.h:9-15).
sizeofHeapBlock == 40
HeaderOffset == [size |-> 0, is_free |-> 8, next |-> 16, prev |-> 24, magic |-> 32]
MIN_BLOCK_SIZE == 16
SizeWrap == 2 ^ SizeBits
\* 0xDEADBEEF in the source; in the model a word that is neither a size, a
\* bool nor an address of the arena.
HEAP_MAGIC == 8 * SizeWrap + 1
\* The constructor's arguments: the address and the size of the buffer.  The
\* address lies above every size, so that a word read back tells what kind of
\* value was stored in it.
heap_size == 8 * HeapWords
heap_start == 4 * SizeWrap
heap_end == heap_start + heap_size
\* The addresses of the words of the arena, and nullptr.
Cells == {heap_start + 8 * i : i \in 0 .. HeapWords - 1}
NullBlock == 0
\* A word holds a size_t value the allocator computes, a bool, a HeapBlock*.
IsSize(w) == w \in 0 .. SizeWrap - 1 /\ w % 8 = 0
IsFlag(w) == w \in {0, 1}
IsLink(w) == w = NullBlock \/ w \in Cells
\* The header at address b lies inside the arena.
Inside(b) == b \in Cells /\ b + HeaderOffset.magic \in Cells
\* block->f and block->f = v.  A store outside the buffer is undefined
\* behaviour: the heap is followed no further ("fault").
Field(h, b, f) == h.arena[b + HeaderOffset[f]]
Store(h, b, f, v) ==
    IF h.status # "ok" THEN h
    ELSE IF b + HeaderOffset[f] \notin Cells THEN [h EXCEPT !.status = "fault"]
    ELSE [h EXCEPT !.arena[b + HeaderOffset[f]] = v]
Fail(h, s) == IF h.status # "ok" THEN h ELSE [h EXCEPT !.status = s]

\* What free() prints (rtos_heap.cpp:217, 223).
NoMessage == ""
InvalidBlock == "[Heap] ERROR: Invalid block in free()"
DoubleFree == "[Heap] WARNING: Double free detected"

\* RTOSHeap::RTOSHeap(buffer, size) on a zeroed buffer (rtos_heap.cpp:6-31).
NewHeap ==
    LET size == heap_size - sizeofHeapBlock
    IN  [arena |-> [c \in Cells |->
                      IF c = heap_start + HeaderOffset.size THEN size
                      ELSE IF c = heap_start + HeaderOffset.is_free THEN 1
                      ELSE IF c = heap_start + HeaderOffset.magic THEN HEAP_MAGIC
                      ELSE 0],
         first_block |-> heap_start,
         last_block |-> heap_start,
         stats |-> [total_size |-> heap_size, free_size |-> size, allocated_size |-> 0,
                    peak_allocated |-> 0, num_allocations |-> 0, num_frees |-> 0,
                    num_blocks |-> 1, largest_free_block |-> size],
         status |-> "ok",
         ret |-> NullBlock,
         log |-> NoMessage]

\* The callers of the heap that can interleave: two tasks, each of which the
\* tick can preempt between any two of its steps.
Callers == {"task1", "task2"}
NoHeapCall == [op |-> "none", ptr |-> 0, size |-> 0, new_ptr |-> 0]

\* MemoryPool<T, POOL_SIZE>::MemoryPool() (memory_pool.h:41-49).  A slot is
\* named by its index 1 .. PoolSize, which also stands for the address of its
\* storage; NullSlot is nullptr.
PoolSlots == 1 .. PoolSize
NullSlot == 0
NewPool ==
    [pool |-> [i \in PoolSlots |->
                 [allocated |-> FALSE,
                  next_free |-> IF i < PoolSize THEN i + 1 ELSE NullSlot]],
     free_list |-> 1,
     allocated_count |-> 0]
\* The locals of a lock call that has left the timeout test behind: timeout and
\* start_tick are not read again.
Acquiring(k) == [kind |-> k, timeout |-> 0, start_tick |-> 0]

\* The state after construction of the objects, the Scheduler with the
\* quantum its constructor or the model gives it.
Constructed(quantum) ==
    /\ is_initialized = FALSE
    /\ is_running = FALSE
    /\ policy = SCHEDULER_ROUND_ROBIN
    /\ tick_count = 0
    /\ time_slice_ticks = quantum
    /\ current_task = NULLPTR
    /\ task_list = <<>>
    /\ live = {}
    /\ state = [t \in Tcb |-> UNINIT]
    /\ priority = [t \in Tcb |-> PRIORITY_IDLE]
    /\ time_slice = [t \in Tcb |-> 0]
    /\ blocked_until = [t \in Tcb |-> 0]
    /\ mtx = [k \in MutexKinds |-> NewMutex]
    /\ pc = [t \in Addr |-> "idle"]
    /\ call = [t \in Addr |-> NoCall]
    /\ ret = NoResult
    /\ delay_left = [t \in Tcb |-> 0]
    /\ holders = {}
    /\ waitq = <<>>
    /\ wait_left = [t \in Addr |-> 0]
    /\ sem = NoSemaphore
    /\ queue = NewQueue
    /\ item = NoMsg
    /\ q_hist = <<>>
    /\ sent = 0
    /\ timers = [i \in Slots |-> ZeroTimer]
    /\ timer_count = 0
    /\ next_handle = 1
    /\ initialized = FALSE
    /\ total_callbacks = 0
    /\ missed_callbacks = 0
    /\ handle_ret = 0
    /\ watch = [i \in Slots |-> Unwatched]
    /\ arena = NewHeap.arena
    /\ first_block = NewHeap.first_block
    /\ last_block = NewHeap.last_block
    /\ stats = NewHeap.stats
    /\ heap_status = NewHeap.status
    /\ heap_ret = NewHeap.ret
    /\ heap_log = NewHeap.log
    /\ outstanding = {}
    /\ pool = NewPool.pool
    /\ free_list = NewPool.free_list
    /\ allocated_count = NewPool.allocated_count
    /\ pool_ret = NullSlot
    /\ pool_gone = [ptr |-> NullSlot, returned |-> FALSE]
    /\ lock_flag = FALSE
    /\ heap_pc = [c \in Callers |-> "idle"]
    /\ heap_call = [c \in Callers |-> NoHeapCall]

Init == Constructed(ShortSlice)

\* The task that is executing is in its own code, not inside a lock call.
CallerFree == current_task \in live => pc[current_task] = "idle"

\* Scheduler::initialize(sched_policy), with initializeIdleTask.
Initialize(p) ==
    /\ IF is_initialized
       THEN UNCHANGED <<policy, tick_count, state, priority, time_slice, is_initialized>>
       ELSE /\ policy' = p
            /\ tick_count' = 0
            /\ state' = [state EXCEPT ![IdleTcb] = TASK_READY]
            /\ priority' = [priority EXCEPT ![IdleTcb] = PRIORITY_IDLE]
            /\ time_slice' = [time_slice EXCEPT ![IdleTcb] = time_slice_ticks]
            /\ is_initialized' = TRUE
    /\ UNCHANGED <<objVars, is_running, time_slice_ticks, current_task, task_list, live, blocked_until,
                   mutexVars, delay_left>>

\* Task::create with Scheduler::addTask.  a is the address new returns, prio
\* and stk are params.priority and params.stack_size, fn tells whether
\* params.function is non-null.
CreateTask(a, prio, stk, fn) ==
    /\ a \notin live
    /\ LET res == IF ~fn THEN RTOS_ERR_INVALID_PARAM
                  ELSE IF stk < TASK_STACK_SIZE_MIN THEN RTOS_ERR_INVALID_PARAM
                  ELSE IF stk > TASK_STACK_SIZE_MAX THEN RTOS_ERR_INVALID_PARAM
                  ELSE IF Len(task_list) >= MAX_TASKS THEN RTOS_ERR_FULL
                  ELSE RTOS_OK
       IN  IF res = RTOS_OK
           THEN /\ live' = live \cup {a}
                /\ state' = [state EXCEPT ![a] = TASK_READY]
                /\ priority' = [priority EXCEPT ![a] = prio]
                /\ time_slice' = [time_slice EXCEPT ![a] = time_slice_ticks]
                /\ task_list' = Append(task_list, a)
           ELSE UNCHANGED <<live, state, priority, time_slice, task_list>>
    /\ UNCHANGED <<objVars, is_initialized, is_running, policy, tick_count, time_slice_ticks, current_task,
                   blocked_until, mutexVars, delay_left>>

\* Scheduler::removeTask(task): the new state and task list, or the list
\* unchanged when the task is not registered.
removeTask(t) ==
    LET pos == {i \in 1 .. Len(task_list) : task_list[i] = t}
    IN  IF pos = {}
        THEN [res |-> RTOS_ERR_NOT_FOUND, st |-> state, list |-> task_list, cur |-> current_task]
        ELSE [res |-> RTOS_OK, st |-> [state EXCEPT ![t] = TASK_DELETED],
              list |-> EraseAt(task_list, Min(pos)), cur |-> current_task]

\* Task::destroy(handle) on a handle that Task::create returned and that was
\* not destroyed yet.  The TCB is deleted: its address leaves live, and what
\* its memory holds afterwards is not part of the state (the fields are put
\* to fixed values; no action reads them before new hands the address out
\* again and Task::create writes them).
DestroyTask(t) ==
    /\ t \in live
    /\ pc[t] = "idle"
    /\ LET r == removeTask(t)
       IN  /\ task_list' = r.list
           /\ current_task' = r.cur
           /\ IF r.res = RTOS_OK
              THEN /\ live' = live \ {t}
                   /\ state' = r.st
                   /\ priority' = [priority EXCEPT ![t] = PRIORITY_IDLE]
                   /\ time_slice' = [time_slice EXCEPT ![t] = 0]
                   /\ blocked_until' = [blocked_until EXCEPT ![t] = 0]
                   /\ delay_left' = [delay_left EXCEPT ![t] = 0]
              ELSE UNCHANGED <<live, state, priority, time_slice, blocked_until, delay_left>>
    /\ UNCHANGED <<objVars, is_initialized, is_running, policy, tick_count, time_slice_ticks, mutexVars>>

\* Task::suspend(handle) on a live handle.
SuspendTask(t) ==
    /\ t \in live
    /\ CallerFree
    /\ IF state[t] = TASK_DELETED
       THEN UNCHANGED <<current_task, state, time_slice, delay_left>>
       ELSE LET st1 == [state EXCEPT ![t] = TASK_SUSPENDED]
                v == IF t = current_task THEN yield(View(current_task, st1, time_slice))
                     ELSE View(current_task, st1, time_slice)
            IN  /\ current_task' = v.cur
                /\ state' = v.st
                /\ time_slice' = v.ts
                /\ delay_left' = [delay_left EXCEPT ![t] = 0]
    /\ UNCHANGED <<objVars, is_initialized, is_running, policy, tick_count, time_slice_ticks, task_list, live,
                   priority, blocked_until, mutexVars>>

\* Task::resume(handle) on a live handle.
ResumeTask(t) ==
    /\ t \in live
    /\ CallerFree
    /\ IF state[t] # TASK_SUSPENDED
       THEN UNCHANGED state
       ELSE state' = [state EXCEPT ![t] = TASK_READY]
    /\ UNCHANGED <<objVars, is_initialized, is_running, policy, tick_count, time_slice_ticks, current_task,
                   task_list, live, priority, time_slice, blocked_until, mutexVars,
                   delay_left>>

\* Scheduler::start.  It is called once: on the target it does not return
\* (scheduler.cpp:220), and every program of the repository calls it once.
Start ==
    /\ ~is_running
    /\ IF ~is_initialized
       THEN UNCHANGED <<is_running, current_task, state>>
       ELSE LET first == selectNextTask(current_task, state)
            IN  /\ is_running' = TRUE
                /\ current_task' = first
                /\ state' = [state EXCEPT ![first] = TASK_RUNNING]
    /\ UNCHANGED <<objVars, is_initialized, policy, tick_count, time_slice_ticks, task_list, live, priority,
                   time_slice, blocked_until, mutexVars, delay_left>>

\* Scheduler::yield (Task::yield), called from outside a lock call.
Yield ==
    /\ CallerFree
    /\ LET v == yield(Here)
       IN  /\ current_task' = v.cur
           /\ state' = v.st
           /\ time_slice' = v.ts
    /\ UNCHANGED <<objVars, is_initialized, is_running, policy, tick_count, time_slice_ticks, task_list, live,
                   priority, blocked_until, mutexVars, delay_left>>

\* Scheduler::delay(ticks) (Task::delay), called by the task that is executing.
\* The idle task never calls it (scheduler.cpp:9-17).  When current_task
\* dangles, the writes to its state and blocked_until land in freed memory.
Delay(ticks) ==
    /\ current_task # IdleTcb
    /\ CallerFree
    /\ IF current_task = NULLPTR \/ ~is_running
       THEN UNCHANGED <<current_task, state, time_slice, blocked_until, delay_left>>
       ELSE IF ticks = 0
       THEN LET v == yield(Here)
            IN  /\ current_task' = v.cur
                /\ state' = v.st
                /\ time_slice' = v.ts
                /\ UNCHANGED <<blocked_until, delay_left>>
       ELSE LET c == current_task
                st1 == IF Valid(c) THEN [state EXCEPT ![c] = TASK_BLOCKED] ELSE state
                v == yield(View(c, st1, time_slice))
            IN  /\ current_task' = v.cur
                /\ state' = v.st
                /\ time_slice' = v.ts
                /\ blocked_until' = IF Valid(c)
                                    THEN [blocked_until EXCEPT ![c] = (tick_count + ticks) % TickWrap]
                                    ELSE blocked_until
                /\ delay_left' = IF Valid(c) THEN [delay_left EXCEPT ![c] = ticks]
                                 ELSE delay_left
    /\ UNCHANGED <<objVars, is_initialized, is_running, policy, tick_count, time_slice_ticks, task_list, live,
                   priority, mutexVars>>

\* The time-slice part of Scheduler::tick (scheduler.cpp:244-251).  When
\* current_task dangles, time_slice is read from freed memory: expired tells
\* whether the value read makes the slice run out.
tickSlice(v, expired) ==
    LET c == v.cur
    IN  IF c = NULLPTR THEN v
        ELSE IF ~Valid(c) THEN (IF expired THEN yield(v) ELSE v)
        ELSE IF v.ts[c] > 0
        THEN LET d == View(c, v.st, [v.ts EXCEPT ![c] = @ - 1])
             IN  IF d.ts[c] = 0 THEN yield(d) ELSE d
        ELSE v

\* The wake-up loop without the look at the state: every registered task
\* whose deadline has passed is made READY.
tickWake_AnyState(st, now) ==
    [t \in Tcb |-> IF /\ t \in Range(task_list)
                      /\ st[t] \in {TASK_BLOCKED, TASK_SUSPENDED}
                      /\ now >= blocked_until[t]
                   THEN TASK_READY ELSE st[t]]

\* The wake-up loop of Scheduler::tick (scheduler.cpp:254-260) at tick now.
tickWake(st, now) ==
    [t \in Tcb |-> IF /\ t \in Range(task_list)
                      /\ st[t] = TASK_BLOCKED
                      /\ now >= blocked_until[t]
                   THEN TASK_READY ELSE st[t]]

\* Scheduler::tick.
Tick ==
    \E expired \in (IF Dangling(current_task) THEN BOOLEAN ELSE {FALSE}) :
        LET now == (tick_count + 1) % TickWrap
            v == tickSlice(Here, expired)
        IN  /\ tick_count' = now
            /\ current_task' = v.cur
            /\ time_slice' = v.ts
            /\ state' = tickWake(v.st, now)
            /\ delay_left' = [t \in Tcb |-> IF delay_left[t] > 0 THEN delay_left[t] - 1 ELSE 0]
            /\ wait_left' = [t \in Addr |-> IF wait_left[t] > 0 THEN wait_left[t] - 1 ELSE 0]
            /\ UNCHANGED <<objVars, is_initialized, is_running, policy, time_slice_ticks, task_list, live, priority,
                           blocked_until, mtx, pc, call, ret, holders, waitq>>

\* The scheduler and task operations.
SchedNext ==
    \/ \E p \in SchedulerPolicy : Initialize(p)
    \/ \E a \in SchedAddr, prio \in TaskPriorities, stk \in StackSizes, fn \in BOOLEAN :
           CreateTask(a, prio, stk, fn)
    \/ \E t \in Addr : DestroyTask(t)
    \/ \E t \in Addr : SuspendTask(t)
    \/ \E t \in Addr : ResumeTask(t)
    \/ Start
    \/ Yield
    \/ \E d \in 0 .. MaxDelay : Delay(d)
    \/ Tick

SpecSched == Init /\ [][SchedNext]_vars

\* A round-robin system whose tasks, once running, only call delay with a
\* positive argument: no task and no harness calls yield, and the tick
\* interrupt keeps arriving.
TickPathNext ==
    \/ Initialize(SCHEDULER_ROUND_ROBIN)
    \/ \E a \in SchedAddr : CreateTask(a, PRIORITY_NORMAL, TASK_STACK_SIZE_DEFAULT, TRUE)
    \/ Start
    \/ \E d \in 1 .. MaxDelay : Delay(d)
    \/ Tick

SpecTickPath == Init /\ [][TickPathNext]_vars /\ WF_vars(Tick)

\* A round-robin system with the quantum of the source, TIME_SLICE_TICKS,
\* whose tasks stay runnable and never yield: tasks are created, the
\* scheduler is started, and ticks arrive.
SliceNext ==
    \/ Initialize(SCHEDULER_ROUND_ROBIN)
    \/ \E a \in Addr : CreateTask(a, PRIORITY_NORMAL, TASK_STACK_SIZE_DEFAULT, TRUE)
    \/ Start
    \/ Tick

SpecSlice == Constructed(TIME_SLICE_TICKS) /\ [][SliceNext]_vars

\* A priority system whose tasks have priority NORMAL or HIGH, stay runnable
\* and yield when they run.
RotateNext ==
    \/ Initialize(SCHEDULER_PRIORITY)
    \/ \E a \in Addr, prio \in {PRIORITY_NORMAL, PRIORITY_HIGH} :
           CreateTask(a, prio, TASK_STACK_SIZE_DEFAULT, TRUE)
    \/ Start
    \/ Yield

SpecRotate == Init /\ [][RotateNext]_vars

\* ------------------------------------------------------------------ mutexes
\* A task executes its code, and with it the mutex calls it makes, while it is
\* the current task: the port layer runs the task that switchContext made
\* current (port.h:110, 180-202).
Executing(t) == is_running /\ current_task = t /\ t \in live

\* The timeouts passed to lock(): 0 (tryLock), finite ones, and UINT32_MAX.
Timeouts == (0 .. MaxTimeout) \cup {TickMax}

\* The three writes that take a mutex (mutex.cpp:53-55, 88-90, 188-190, 213-215).
MutexAcquired(cur) == [is_locked |-> TRUE, owner |-> cur, recursive_count |-> 1]

\* The three writes of MutexAPI::unlock that release it (mutex.cpp:121-123).
MutexReleased == [is_locked |-> FALSE, owner |-> NULLPTR, recursive_count |-> 0]

\* RecursiveMutexAPI::unlock that clears is_locked and leaves the owner.
RecursiveUnlocked_KeepsOwner(m) ==
    LET c == m.recursive_count - 1
    IN  IF c = 0 THEN [is_locked |-> FALSE, owner |-> m.owner, recursive_count |-> c]
        ELSE [m EXCEPT !.recursive_count = c]

\* The writes of RecursiveMutexAPI::unlock by the owner (mutex.cpp:238-244).
RecursiveUnlocked(m) ==
    LET c == m.recursive_count - 1
    IN  IF c = 0 THEN [is_locked |-> FALSE, owner |-> NULLPTR, recursive_count |-> c]
        ELSE [m EXCEPT !.recursive_count = c]

\* s without the element t.
Without(s, t) == SelectSeq(s, LAMBDA x : x # t)

\* The call of task t returns r.
Return(t, r) ==
    /\ ret' = r
    /\ pc' = [pc EXCEPT ![t] = "idle"]
    /\ call' = [call EXCEPT ![t] = NoCall]
    /\ wait_left' = [wait_left EXCEPT ![t] = 0]

\* MutexAPI::lock(handle, timeout) and RecursiveMutexAPI::lock(handle, timeout)
\* by task t, from the call up to the return or the first evaluation of the
\* loop condition (mutex.cpp:39-73, 174-201).  When the mutex is found free the
\* task stands between the test of is_locked and the writes that take it.
LockBegin(t, k, timeout) ==
    /\ Executing(t)
    /\ pc[t] = "idle"
    /\ (k = "RecursiveMutex" /\ mtx[k].is_locked /\ mtx[k].owner = t)
          => mtx[k].recursive_count < MaxRecursion
    /\ IF ~mtx[k].is_locked
       THEN /\ pc' = [pc EXCEPT ![t] = "acquire"]
            /\ call' = [call EXCEPT ![t] = Acquiring(k)]
            /\ UNCHANGED <<mtx, ret, waitq, wait_left>>
       ELSE IF mtx[k].owner = t
       THEN /\ IF k = "Mutex"
               THEN /\ Return(t, RTOS_ERR_BUSY)
                    /\ UNCHANGED mtx
               ELSE /\ Return(t, RTOS_OK)
                    /\ mtx' = [mtx EXCEPT ![k].recursive_count = @ + 1]
            /\ UNCHANGED waitq
       ELSE IF k = "Mutex" /\ timeout = 0
       THEN /\ Return(t, RTOS_ERR_BUSY)
            /\ UNCHANGED <<mtx, waitq>>
       ELSE /\ pc' = [pc EXCEPT ![t] = "spin"]
            /\ call' = [call EXCEPT ![t] = [kind |-> k, timeout |-> timeout,
                                            start_tick |-> tick_count]]
            /\ waitq' = IF k = "Mutex" THEN Append(waitq, t) ELSE waitq
            /\ wait_left' = [wait_left EXCEPT ![t] = IF timeout = TickMax THEN 0 ELSE timeout]
            /\ UNCHANGED <<mtx, ret>>
    /\ UNCHANGED <<objVars, schedVars, holders, delay_left>>

\* MutexAPI::tryLock(handle) by task t.
TryLock(t) == LockBegin(t, "Mutex", 0)

\* The writes that take the mutex and the return of RTOS_OK
\* (mutex.cpp:53-56, 88-92, 188-191, 213-217).
LockAcquire(t) ==
    /\ Executing(t)
    /\ pc[t] = "acquire"
    /\ mtx' = [mtx EXCEPT ![call[t].kind] = MutexAcquired(t)]
    /\ Return(t, RTOS_OK)
    /\ holders' = IF call[t].kind = "Mutex" THEN holders \cup {t} ELSE holders
    /\ waitq' = IF call[t].kind = "Mutex" THEN Without(waitq, t) ELSE waitq
    /\ UNCHANGED <<objVars, schedVars, delay_left>>

\* The timeout test with the deadline start_tick + timeout compared against
\* the tick count, both modulo 2^32.
TimedOut_Deadline(start_tick, timeout) ==
    tick_count >= (start_tick + timeout) % TickWrap

\* The timeout test of the wait loop (mutex.cpp:78-81, 205-207): the ticks
\* elapsed since the call, an unsigned difference, against the timeout.
TimedOut(start_tick, timeout) ==
    (tick_count - start_tick) % TickWrap >= timeout

\* One round of the wait loop (mutex.cpp:75-85, 203-210): the loop condition,
\* the timeout test and the yield.
LockSpin(t) ==
    /\ Executing(t)
    /\ pc[t] = "spin"
    /\ LET k == call[t].kind
       IN  IF ~mtx[k].is_locked
           THEN /\ pc' = [pc EXCEPT ![t] = "acquire"]
                /\ call' = [call EXCEPT ![t] = Acquiring(k)]
                /\ wait_left' = [wait_left EXCEPT ![t] = 0]
                /\ UNCHANGED <<ret, waitq, current_task, state, time_slice>>
           ELSE IF call[t].timeout # TickMax /\ TimedOut(call[t].start_tick, call[t].timeout)
           THEN /\ Return(t, RTOS_ERR_TIMEOUT)
                /\ waitq' = IF k = "Mutex" THEN Without(waitq, t) ELSE waitq
                /\ UNCHANGED <<current_task, state, time_slice>>
           ELSE LET v == yield(Here)
                IN  /\ current_task' = v.cur
                    /\ state' = v.st
                    /\ time_slice' = v.ts
                    /\ UNCHANGED <<pc, call, ret, waitq, wait_left>>
    /\ UNCHANGED <<objVars, is_initialized, is_running, policy, tick_count, time_slice_ticks, task_list,
                   live, priority, blocked_until, mtx, holders, delay_left>>

\* unlock without the test of the owner: whoever calls it releases the mutex.
Unlock_AnyCaller(t, k) ==
    /\ Executing(t)
    /\ pc[t] = "idle"
    /\ IF ~mtx[k].is_locked
       THEN /\ Return(t, RTOS_ERR_INVALID_PARAM)
            /\ UNCHANGED <<mtx, holders>>
       ELSE /\ Return(t, RTOS_OK)
            /\ mtx' = [mtx EXCEPT ![k] = IF k = "Mutex" THEN MutexReleased
                                         ELSE RecursiveUnlocked(@)]
            /\ holders' = IF k = "Mutex" THEN holders \ {t} ELSE holders
    /\ UNCHANGED <<objVars, schedVars, waitq, delay_left>>

\* MutexAPI::unlock(handle) and RecursiveMutexAPI::unlock(handle) by task t.
Unlock(t, k) ==
    /\ Executing(t)
    /\ pc[t] = "idle"
    /\ IF ~mtx[k].is_locked
       THEN /\ Return(t, RTOS_ERR_INVALID_PARAM)
            /\ UNCHANGED <<mtx, holders>>
       ELSE IF mtx[k].owner # t
       THEN /\ Return(t, RTOS_ERR_INVALID_PARAM)
            /\ UNCHANGED <<mtx, holders>>
       ELSE /\ Return(t, RTOS_OK)
            /\ mtx' = [mtx EXCEPT ![k] = IF k = "Mutex" THEN MutexReleased
                                         ELSE RecursiveUnlocked(@)]
            /\ holders' = IF k = "Mutex" THEN holders \ {t} ELSE holders
    /\ UNCHANGED <<objVars, schedVars, waitq, delay_left>>

\* The steps of the tasks' calls on the mutexes of the kinds in kinds.
MutexStep(kinds) ==
    \/ \E t \in Addr, k \in kinds, timeout \in Timeouts : LockBegin(t, k, timeout)
    \/ \E t \in Addr : TryLock(t)
    \/ \E t \in Addr : LockAcquire(t)
    \/ \E t \in Addr : LockSpin(t)
    \/ \E t \in Addr, k \in kinds : Unlock(t, k)

\* The tasks of the mutex specifications, at most one per address of addrs:
\* valid parameters, one priority, none destroyed, so that the allocator hands
\* out fresh addresses in order.
MutexTask(addrs) ==
    /\ addrs \ live # {}
    /\ CreateTask(Min(addrs \ live), PRIORITY_NORMAL, TASK_STACK_SIZE_DEFAULT, TRUE)

\* No task stands between finding a mutex free and taking it.
NoneAcquiring == \A t \in Addr : pc[t] # "acquire"

\* Two tasks that lock and unlock one Mutex under a running scheduler whose
\* tick interrupt arrives between any two steps.
MutexNext ==
    \/ \E p \in SchedulerPolicy : Initialize(p)
    \/ MutexTask(SchedAddr)
    \/ Start
    \/ Yield
    \/ Tick
    \/ MutexStep({"Mutex"})

SpecMutex == Init /\ [][MutexNext]_vars

\* Two tasks, a Mutex and a RecursiveMutex, with every call running from its
\* start to its return or to its next yield() without a tick in between: the
\* calls come one after another.
CallsNext ==
    \/ \E p \in SchedulerPolicy : Initialize(p)
    \/ MutexTask(SchedAddr)
    \/ Start
    \/ Yield
    \/ NoneAcquiring /\ Tick
    \/ MutexStep(MutexKinds)

SpecCalls == Init /\ [][CallsNext]_vars

\* Three tasks and one Mutex, the calls coming one after another: a holder
\* and two tasks waiting for it.
HandoffNext ==
    \/ \E p \in SchedulerPolicy : Initialize(p)
    \/ MutexTask(Addr)
    \/ Start
    \/ Yield
    \/ NoneAcquiring /\ Tick
    \/ MutexStep({"Mutex"})

SpecHandoff == Init /\ [][HandoffNext]_vars

\* --------------------------------------------------------------- semaphores

\* count and max_count are uint32_t: arithmetic modulo CountWrap.
CountWrap == 2 ^ CountBits

\* SemaphoreAPI::createBinary(&handle, initial_available).
CreateBinary(initial_available) ==
    /\ sem = NoSemaphore
    /\ sem' = [type |-> SEMAPHORE_BINARY,
               count |-> IF initial_available THEN 1 ELSE 0,
               max_count |-> 1]
    /\ ret' = RTOS_OK
    /\ UNCHANGED <<schedVars, queueVars, timerVars, memVars, mtx, pc, call, holders, waitq, wait_left, delay_left>>

\* SemaphoreAPI::createCounting(&handle, max_count, initial_count).
CreateCounting(max_count, initial_count) ==
    /\ sem = NoSemaphore
    /\ IF max_count = 0 \/ initial_count > max_count
       THEN /\ ret' = RTOS_ERR_INVALID_PARAM
            /\ UNCHANGED sem
       ELSE /\ sem' = [type |-> SEMAPHORE_COUNTING,
                       count |-> initial_count,
                       max_count |-> max_count]
            /\ ret' = RTOS_OK
    /\ UNCHANGED <<schedVars, queueVars, timerVars, memVars, mtx, pc, call, holders, waitq, wait_left, delay_left>>

\* SemaphoreAPI::take(handle, timeout) by task t, up to the decrement, the
\* return or the wait loop (semaphore.cpp:57-76).
TakeBegin(t, timeout) ==
    /\ Executing(t)
    /\ pc[t] = "idle"
    /\ sem # NoSemaphore
    /\ IF sem.count > 0
       THEN /\ pc' = [pc EXCEPT ![t] = "take_dec"]
            /\ call' = [call EXCEPT ![t] = Acquiring("Semaphore")]
            /\ UNCHANGED <<ret, wait_left>>
       ELSE IF timeout = 0
       THEN Return(t, RTOS_ERR_BUSY)
       ELSE /\ pc' = [pc EXCEPT ![t] = "take_spin"]
            /\ call' = [call EXCEPT ![t] = [kind |-> "Semaphore", timeout |-> timeout,
                                            start_tick |-> tick_count]]
            /\ UNCHANGED <<ret, wait_left>>
    /\ UNCHANGED <<schedVars, queueVars, timerVars, memVars, sem, mtx, holders, waitq, delay_left>>

\* SemaphoreAPI::tryTake(handle) by task t.
TryTake(t) == TakeBegin(t, 0)

\* handle->count-- and the return of RTOS_OK (semaphore.cpp:66-67, 91-92).
TakeDec(t) ==
    /\ Executing(t)
    /\ pc[t] = "take_dec"
    /\ sem' = [sem EXCEPT !.count = (@ - 1) % CountWrap]
    /\ Return(t, RTOS_OK)
    /\ UNCHANGED <<schedVars, queueVars, timerVars, memVars, mtx, holders, waitq, delay_left>>

\* One round of the wait loop of take (semaphore.cpp:78-88).
TakeSpin(t) ==
    /\ Executing(t)
    /\ pc[t] = "take_spin"
    /\ IF sem.count # 0
       THEN /\ pc' = [pc EXCEPT ![t] = "take_dec"]
            /\ call' = [call EXCEPT ![t] = Acquiring("Semaphore")]
            /\ UNCHANGED <<ret, wait_left, current_task, state, time_slice>>
       ELSE IF call[t].timeout # TickMax /\ TimedOut(call[t].start_tick, call[t].timeout)
       THEN /\ Return(t, RTOS_ERR_TIMEOUT)
            /\ UNCHANGED <<current_task, state, time_slice>>
       ELSE LET v == yield(Here)
            IN  /\ current_task' = v.cur
                /\ state' = v.st
                /\ time_slice' = v.ts
                /\ UNCHANGED <<pc, call, ret, wait_left>>
    /\ UNCHANGED <<is_initialized, is_running, policy, tick_count, time_slice_ticks, task_list,
                   live, priority, blocked_until, queueVars, timerVars, memVars,
                   sem, mtx, holders, waitq, delay_left>>

\* give with the test count > max_count: a full semaphore passes it.
GiveBegin_Greater(t) ==
    /\ Executing(t)
    /\ pc[t] = "idle"
    /\ sem # NoSemaphore
    /\ IF sem.count > sem.max_count
       THEN Return(t, RTOS_ERR_FULL)
       ELSE /\ pc' = [pc EXCEPT ![t] = "give_inc"]
            /\ call' = [call EXCEPT ![t] = Acquiring("Semaphore")]
            /\ UNCHANGED <<ret, wait_left>>
    /\ UNCHANGED <<schedVars, queueVars, timerVars, memVars, sem, mtx, holders, waitq, delay_left>>

\* SemaphoreAPI::give(handle) by task t, up to the increment or the return of
\* RTOS_ERR_FULL (semaphore.cpp:96-105).
GiveBegin(t) ==
    /\ Executing(t)
    /\ pc[t] = "idle"
    /\ sem # NoSemaphore
    /\ IF sem.count >= sem.max_count
       THEN Return(t, RTOS_ERR_FULL)
       ELSE /\ pc' = [pc EXCEPT ![t] = "give_inc"]
            /\ call' = [call EXCEPT ![t] = Acquiring("Semaphore")]
            /\ UNCHANGED <<ret, wait_left>>
    /\ UNCHANGED <<schedVars, queueVars, timerVars, memVars, sem, mtx, holders, waitq, delay_left>>

\* handle->count++ and the return of RTOS_OK (semaphore.cpp:108-110).
GiveInc(t) ==
    /\ Executing(t)
    /\ pc[t] = "give_inc"
    /\ sem' = [sem EXCEPT !.count = (@ + 1) % CountWrap]
    /\ Return(t, RTOS_OK)
    /\ UNCHANGED <<schedVars, queueVars, timerVars, memVars, mtx, holders, waitq, delay_left>>

SemStep ==
    \/ \E b \in BOOLEAN : CreateBinary(b)
    \/ \E m \in 0 .. MaxSemCount, i \in 0 .. MaxSemCount : CreateCounting(m, i)
    \/ \E t \in Addr, timeout \in Timeouts : TakeBegin(t, timeout)
    \/ \E t \in Addr : TryTake(t)
    \/ \E t \in Addr : TakeDec(t)
    \/ \E t \in Addr : TakeSpin(t)
    \/ \E t \in Addr : GiveBegin(t)
    \/ \E t \in Addr : GiveInc(t)

\* No task stands between a test of count and the write of count.
NoneCounting == \A t \in Addr : pc[t] \notin {"take_dec", "give_inc"}

\* Two tasks that take and give one semaphore under a running scheduler whose
\* tick interrupt arrives between any two steps.
SemNext ==
    \/ \E p \in SchedulerPolicy : Initialize(p)
    \/ MutexTask(SchedAddr)
    \/ Start
    \/ Tick
    \/ SemStep

SpecSem == Init /\ [][SemNext]_vars

\* The same with every take and give running from its start to its return or
\* to its next yield() without a tick in between.
SemCallsNext ==
    \/ \E p \in SchedulerPolicy : Initialize(p)
    \/ MutexTask(SchedAddr)
    \/ Start
    \/ NoneCounting /\ Tick
    \/ SemStep

SpecSemCalls == Init /\ [][SemCallsNext]_vars

\* ------------------------------------------------------------------- queues
\* The bool that Queue::enqueue and Queue::dequeue return, as a result value.
BoolResult(b) == IF b THEN "true" ELSE "false"

isEmpty(q) == q.count = 0
\* isFull with the test count > MAX_ITEMS.
isFull_Strict(q) == q.count > MaxItems
isFull(q) == q.count >= MaxItems

\* buffer[tail] = item (queue.h:46).
enqueue_store(q, v) == [q EXCEPT !.buffer[q.tail] = v]
\* tail = (tail + 1) % MAX_ITEMS; count++ (queue.h:47-48); count is a size_t.
enqueue_commit(q) ==
    [q EXCEPT !.tail = (q.tail + 1) % MaxItems, !.count = (q.count + 1) % CountWrap]
\* Queue::enqueue(item).
enqueue(q, v) ==
    IF isFull(q) THEN [ok |-> FALSE, q |-> q]
                 ELSE [ok |-> TRUE, q |-> enqueue_commit(enqueue_store(q, v))]

\* The slot written last instead of the slot at head.
front_Newest(q) == q.buffer[(q.tail + MaxItems - 1) % MaxItems]
\* buffer[head] (queue.h:59).
front(q) == q.buffer[q.head]
\* The values a read of buffer[head] can give: any, if the slot was never
\* written.
Loaded(q) == IF front(q) = NoMsg THEN Msgs ELSE {front(q)}
\* head = (head + 1) % MAX_ITEMS; count-- (queue.h:60-61).
dequeue_commit(q) ==
    [q EXCEPT !.head = (q.head + 1) % MaxItems, !.count = (q.count - 1) % CountWrap]
\* Queue::dequeue(item), item being old on entry.
dequeue(q, old) ==
    IF isEmpty(q) THEN [ok |-> FALSE, item |-> old, q |-> q]
                  ELSE [ok |-> TRUE, item |-> front(q), q |-> dequeue_commit(q)]

\* The values held by the queue, oldest first.
Contents(q) == [i \in 1 .. q.count |-> q.buffer[(q.head + i - 1) % MaxItems]]
Pop(h) == IF h = <<>> THEN h ELSE Tail(h)

\* queue.enqueue(v) called on the Queue itself (test_sync.cpp:138-163).
EnqueueValue(v) ==
    LET r == enqueue(queue, v)
    IN  /\ sent' = v
        /\ queue' = r.q
        /\ ret' = BoolResult(r.ok)
        /\ q_hist' = IF r.ok THEN Append(q_hist, v) ELSE q_hist
        /\ UNCHANGED <<schedVars, semVars, timerVars, memVars, item, mtx, pc, call, holders, waitq, wait_left,
                       delay_left>>

\* The same by a program that numbers its messages 1, 2, ...
Enqueue(v) == v = sent + 1 /\ EnqueueValue(v)

\* queue.dequeue(value) called on the Queue itself (test_sync.cpp:144-148).
Dequeue ==
    LET r == dequeue(queue, item)
    IN  /\ queue' = r.q
        /\ item' = r.item
        /\ ret' = BoolResult(r.ok)
        /\ q_hist' = IF r.ok THEN Pop(q_hist) ELSE q_hist
        /\ UNCHANGED <<schedVars, semVars, timerVars, memVars, sent, mtx, pc, call, holders, waitq, wait_left,
                       delay_left>>

\* Queue::peek(item), item being old on entry (queue.h:66-73).
peek(q, old) ==
    IF isEmpty(q) THEN [ok |-> FALSE, item |-> old, q |-> q]
                  ELSE [ok |-> TRUE, item |-> front(q), q |-> q]

\* clear that leaves tail where it was.
clear_KeepsTail(q) == [q EXCEPT !.head = 0, !.count = 0]
\* Queue::clear() (queue.h:76-80).
clear(q) == [q EXCEPT !.head = 0, !.tail = 0, !.count = 0]

\* queue.peek(value) called on the Queue itself.
Peek ==
    LET r == peek(queue, item)
    IN  /\ queue' = r.q
        /\ item' = r.item
        /\ ret' = BoolResult(r.ok)
        /\ UNCHANGED <<schedVars, semVars, timerVars, memVars, sent, q_hist, mtx, pc, call,
                       holders, waitq, wait_left, delay_left>>

\* queue.clear() called on the Queue itself.
Clear ==
    /\ queue' = clear(queue)
    /\ q_hist' = <<>>
    /\ UNCHANGED <<schedVars, semVars, timerVars, memVars, sent, item, ret, mtx, pc, call,
                   holders, waitq, wait_left, delay_left>>

\* A program that calls enqueue, with any message, dequeue, peek and clear
\* on the Queue itself, one call after the other.
RingNext ==
    \/ \E v \in Msgs : EnqueueValue(v)
    \/ Dequeue
    \/ Peek
    \/ Clear

SpecRing == Init /\ [][RingNext]_vars

\* The locals of a send or receive call: the message, the timeout and the
\* tick of the call while the wait loop reads them.
QueueCall(v, timeout, start_tick) ==
    [kind |-> "Queue", timeout |-> timeout, start_tick |-> start_tick, item |-> v]

\* MessageQueue::send(item, timeout) by task t, up to the store into the
\* buffer, the return or the wait loop (queue.cpp:8-22, queue.h:41-46).
SendBegin(t, v, timeout) ==
    /\ Executing(t)
    /\ pc[t] = "idle"
    /\ v = sent + 1
    /\ sent' = v
    /\ IF ~isFull(queue)
       THEN /\ queue' = enqueue_store(queue, v)
            /\ pc' = [pc EXCEPT ![t] = "enq_commit"]
            /\ call' = [call EXCEPT ![t] = QueueCall(v, 0, 0)]
            /\ UNCHANGED <<ret, wait_left>>
       ELSE IF timeout = 0
       THEN /\ Return(t, RTOS_ERR_FULL)
            /\ UNCHANGED queue
       ELSE /\ pc' = [pc EXCEPT ![t] = "send_spin"]
            /\ call' = [call EXCEPT ![t] = QueueCall(v, timeout, tick_count)]
            /\ UNCHANGED <<queue, ret, wait_left>>
    /\ UNCHANGED <<schedVars, semVars, timerVars, memVars, item, q_hist, mtx, holders, waitq, delay_left>>

\* MessageQueue::trySend(item) by task t.
TrySend(t, v) == SendBegin(t, v, 0)

\* The rest of enqueue and the return of RTOS_OK (queue.h:47-50,
\* queue.cpp:13, 38).
EnqCommit(t) ==
    /\ Executing(t)
    /\ pc[t] = "enq_commit"
    /\ queue' = enqueue_commit(queue)
    /\ q_hist' = Append(q_hist, call[t].item)
    /\ Return(t, RTOS_OK)
    /\ UNCHANGED <<schedVars, semVars, timerVars, memVars, item, sent, mtx, holders, waitq, delay_left>>

\* One round of the wait loop of send (queue.cpp:24-34).
SendSpin(t) ==
    /\ Executing(t)
    /\ pc[t] = "send_spin"
    /\ IF ~isFull(queue)
       THEN /\ pc' = [pc EXCEPT ![t] = "send_retry"]
            /\ call' = [call EXCEPT ![t] = QueueCall(call[t].item, 0, 0)]
            /\ UNCHANGED <<ret, wait_left, current_task, state, time_slice>>
       ELSE IF call[t].timeout # TickMax /\ TimedOut(call[t].start_tick, call[t].timeout)
       THEN /\ Return(t, RTOS_ERR_TIMEOUT)
            /\ UNCHANGED <<current_task, state, time_slice>>
       ELSE LET w == yield(Here)
            IN  /\ current_task' = w.cur
                /\ state' = w.st
                /\ time_slice' = w.ts
                /\ UNCHANGED <<pc, call, ret, wait_left>>
    /\ UNCHANGED <<is_initialized, is_running, policy, tick_count, time_slice_ticks, task_list,
                   live, priority, blocked_until, objVars, mtx, holders, waitq, delay_left>>

\* The second enqueue of send, after the wait loop (queue.cpp:37-41).
SendRetry(t) ==
    /\ Executing(t)
    /\ pc[t] = "send_retry"
    /\ IF isFull(queue)
       THEN /\ Return(t, RTOS_ERR_FULL)
            /\ UNCHANGED queue
       ELSE /\ queue' = enqueue_store(queue, call[t].item)
            /\ pc' = [pc EXCEPT ![t] = "enq_commit"]
            /\ UNCHANGED <<call, ret, wait_left>>
    /\ UNCHANGED <<schedVars, semVars, timerVars, memVars, item, q_hist, sent, mtx, holders, waitq, delay_left>>

\* MessageQueue::receive(item, timeout) by task t, up to the load from the
\* buffer, the return or the wait loop (queue.cpp:45-59, queue.h:54-59).
ReceiveBegin(t, timeout) ==
    /\ Executing(t)
    /\ pc[t] = "idle"
    /\ IF ~isEmpty(queue)
       THEN /\ \E v \in Loaded(queue) : call' = [call EXCEPT ![t] = QueueCall(v, 0, 0)]
            /\ pc' = [pc EXCEPT ![t] = "deq_commit"]
            /\ UNCHANGED <<ret, wait_left>>
       ELSE IF timeout = 0
       THEN Return(t, RTOS_ERR_EMPTY)
       ELSE /\ pc' = [pc EXCEPT ![t] = "recv_spin"]
            /\ call' = [call EXCEPT ![t] = QueueCall(NoMsg, timeout, tick_count)]
            /\ UNCHANGED <<ret, wait_left>>
    /\ UNCHANGED <<schedVars, objVars, mtx, holders, waitq, delay_left>>

\* MessageQueue::tryReceive(item) by task t.
TryReceive(t) == ReceiveBegin(t, 0)

\* The rest of dequeue and the return of RTOS_OK (queue.h:59-63,
\* queue.cpp:50, 75).
DeqCommit(t) ==
    /\ Executing(t)
    /\ pc[t] = "deq_commit"
    /\ queue' = dequeue_commit(queue)
    /\ item' = call[t].item
    /\ q_hist' = Pop(q_hist)
    /\ Return(t, RTOS_OK)
    /\ UNCHANGED <<schedVars, semVars, timerVars, memVars, sent, mtx, holders, waitq, delay_left>>

\* One round of the wait loop of receive (queue.cpp:61-71).
ReceiveSpin(t) ==
    /\ Executing(t)
    /\ pc[t] = "recv_spin"
    /\ IF ~isEmpty(queue)
       THEN /\ pc' = [pc EXCEPT ![t] = "recv_retry"]
            /\ call' = [call EXCEPT ![t] = QueueCall(NoMsg, 0, 0)]
            /\ UNCHANGED <<ret, wait_left, current_task, state, time_slice>>
       ELSE IF call[t].timeout # TickMax /\ TimedOut(call[t].start_tick, call[t].timeout)
       THEN /\ Return(t, RTOS_ERR_TIMEOUT)
            /\ UNCHANGED <<current_task, state, time_slice>>
       ELSE LET w == yield(Here)
            IN  /\ current_task' = w.cur
                /\ state' = w.st
                /\ time_slice' = w.ts
                /\ UNCHANGED <<pc, call, ret, wait_left>>
    /\ UNCHANGED <<is_initialized, is_running, policy, tick_count, time_slice_ticks, task_list,
                   live, priority, blocked_until, objVars, mtx, holders, waitq, delay_left>>

\* The second dequeue of receive, after the wait loop (queue.cpp:74-78).
ReceiveRetry(t) ==
    /\ Executing(t)
    /\ pc[t] = "recv_retry"
    /\ IF isEmpty(queue)
       THEN Return(t, RTOS_ERR_EMPTY)
       ELSE /\ \E v \in Loaded(queue) : call' = [call EXCEPT ![t] = QueueCall(v, 0, 0)]
            /\ pc' = [pc EXCEPT ![t] = "deq_commit"]
            /\ UNCHANGED <<ret, wait_left>>
    /\ UNCHANGED <<schedVars, objVars, mtx, holders, waitq, delay_left>>

QueueStep ==
    \/ \E t \in Addr, v \in Msgs, timeout \in Timeouts : SendBegin(t, v, timeout)
    \/ \E t \in Addr, v \in Msgs : TrySend(t, v)
    \/ \E t \in Addr : EnqCommit(t)
    \/ \E t \in Addr : SendSpin(t)
    \/ \E t \in Addr : SendRetry(t)
    \/ \E t \in Addr, timeout \in Timeouts : ReceiveBegin(t, timeout)
    \/ \E t \in Addr : TryReceive(t)
    \/ \E t \in Addr : DeqCommit(t)
    \/ \E t \in Addr : ReceiveSpin(t)
    \/ \E t \in Addr : ReceiveRetry(t)

\* No task stands inside enqueue or dequeue, or between the wait loop and the
\* second enqueue or dequeue.
NoneInQueue ==
    \A t \in Addr : pc[t] \notin {"enq_commit", "deq_commit", "send_retry", "recv_retry"}

\* Two tasks that send to and receive from one MessageQueue under a running
\* scheduler whose tick interrupt arrives between any two steps.
QueueNext ==
    \/ Initialize(SCHEDULER_ROUND_ROBIN)
    \/ MutexTask(SchedAddr)
    \/ Start
    \/ Tick
    \/ QueueStep

SpecQueue == Init /\ [][QueueNext]_vars

\* The same with every call running from its start to its return or to its
\* next yield() without a tick in between, and with enqueue and dequeue also
\* called on the Queue itself.
QueueCallsNext ==
    \/ Initialize(SCHEDULER_ROUND_ROBIN)
    \/ MutexTask(SchedAddr)
    \/ Start
    \/ NoneInQueue /\ Tick
    \/ NoneInQueue /\ \E v \in Msgs : Enqueue(v)
    \/ NoneInQueue /\ Dequeue
    \/ QueueStep

SpecQueueCalls == Init /\ [][QueueCallsNext]_vars

\* ------------------------------------------------------------------- timers
\* handle and next_handle, and expiry_count, are uint32_t.
HandleWrap == 2 ^ HandleBits
ExpiryWrap == 2 ^ ExpiryBits
Handles == 0 .. HandleWrap - 1

\* What the timer calls leave alone.
timerFrame == <<schedVars, semVars, queueVars, memVars, mtx, pc, call, holders, waitq, wait_left,
                delay_left>>

\* TimerManager::findTimer(handle): the first slot holding the handle, 0 for
\* nullptr. A free slot holds handle 0.
findTimer(h) ==
    IF \E i \in Slots : timers[i].handle = h
    THEN Min({i \in Slots : timers[i].handle = h})
    ELSE 0

\* TimerManager::init(); memset is the arrays' content before init as well.
TimerInit ==
    /\ IF initialized
       THEN UNCHANGED <<timers, timer_count, next_handle, initialized, total_callbacks,
                        missed_callbacks, watch>>
       ELSE /\ timers' = [i \in Slots |-> ZeroTimer]
            /\ timer_count' = 0
            /\ next_handle' = 1
            /\ total_callbacks' = 0
            /\ missed_callbacks' = 0
            /\ initialized' = TRUE
            /\ watch' = [i \in Slots |-> Unwatched]
    /\ ret' = RTOS_OK
    /\ UNCHANGED <<timerFrame, handle_ret>>

\* The history of a timer that the call `by` has just set going; the free slot
\* that handle 0 finds has none.
Tracking(h, by) ==
    IF h = 0 THEN Unwatched ELSE [tracked |-> TRUE, n |-> 0, fired |-> 0, by |-> by]

\* The manager as init() leaves it, or as it is if init() has run
\* (timer.cpp:28-38, 50-52).
Inited ==
    IF initialized
    THEN [timers |-> timers, timer_count |-> timer_count, next_handle |-> next_handle,
          total_callbacks |-> total_callbacks, missed_callbacks |-> missed_callbacks,
          watch |-> watch]
    ELSE [timers |-> [i \in Slots |-> ZeroTimer], timer_count |-> 0, next_handle |-> 1,
          total_callbacks |-> 0, missed_callbacks |-> 0,
          watch |-> [i \in Slots |-> Unwatched]]

\* TimerManager::createTimer(name, period_ticks, type, callback, user_data).
CreateTimer(period_ticks, type, callback) ==
    LET m == Inited
        free == {i \in Slots : m.timers[i].handle = 0}
    IN  /\ initialized' = TRUE
        /\ total_callbacks' = m.total_callbacks
        /\ missed_callbacks' = m.missed_callbacks
        /\ IF \/ m.timer_count >= MaxTimers
              \/ period_ticks = 0 \/ ~callback
              \/ free = {}
           THEN /\ handle_ret' = 0
                /\ timers' = m.timers
                /\ timer_count' = m.timer_count
                /\ next_handle' = m.next_handle
                /\ watch' = m.watch
           ELSE /\ timers' = [m.timers EXCEPT ![Min(free)] =
                                [handle |-> m.next_handle, type |-> type,
                                 state |-> TIMER_STOPPED,
                                 period_ticks |-> period_ticks,
                                 remaining_ticks |-> period_ticks,
                                 callback |-> callback,
                                 auto_reload |-> (type = TIMER_PERIODIC),
                                 expiry_count |-> 0]]
                /\ next_handle' = (m.next_handle + 1) % HandleWrap
                /\ timer_count' = (m.timer_count + 1) % CountWrap
                /\ handle_ret' = m.next_handle
                /\ watch' = [m.watch EXCEPT ![Min(free)] = Unwatched]
        /\ UNCHANGED <<timerFrame, ret>>

\* TimerManager::deleteTimer(handle).
DeleteTimer(h) ==
    /\ IF findTimer(h) = 0
       THEN /\ ret' = RTOS_ERR_INVALID_PARAM
            /\ UNCHANGED <<timers, timer_count, watch>>
       ELSE /\ timers' = [timers EXCEPT ![findTimer(h)] = ZeroTimer]
            /\ timer_count' = (timer_count - 1) % CountWrap
            /\ watch' = [watch EXCEPT ![findTimer(h)] = Unwatched]
            /\ ret' = RTOS_OK
    /\ UNCHANGED <<timerFrame, next_handle, initialized, total_callbacks, missed_callbacks,
                   handle_ret>>

\* startTimer with the reload left out.
StartTimer_NoReload(h) ==
    /\ IF findTimer(h) = 0
       THEN /\ ret' = RTOS_ERR_INVALID_PARAM
            /\ UNCHANGED <<timers, watch>>
       ELSE /\ ret' = RTOS_OK
            /\ IF timers[findTimer(h)].state = TIMER_RUNNING
               THEN UNCHANGED <<timers, watch>>
               ELSE /\ timers' = [timers EXCEPT ![findTimer(h)].state = TIMER_RUNNING]
                    /\ watch' = [watch EXCEPT ![findTimer(h)] =
                                    Tracking(h, "start")]
    /\ UNCHANGED <<timerFrame, timer_count, next_handle, initialized, total_callbacks,
                   missed_callbacks, handle_ret>>

\* TimerManager::startTimer(handle).
StartTimer(h) ==
    /\ IF findTimer(h) = 0
       THEN /\ ret' = RTOS_ERR_INVALID_PARAM
            /\ UNCHANGED <<timers, watch>>
       ELSE /\ ret' = RTOS_OK
            /\ IF timers[findTimer(h)].state = TIMER_RUNNING
               THEN UNCHANGED <<timers, watch>>
               ELSE /\ timers' = [timers EXCEPT
                                    ![findTimer(h)].state = TIMER_RUNNING,
                                    ![findTimer(h)].remaining_ticks =
                                        timers[findTimer(h)].period_ticks]
                    /\ watch' = [watch EXCEPT ![findTimer(h)] =
                                    Tracking(h, "start")]
    /\ UNCHANGED <<timerFrame, timer_count, next_handle, initialized, total_callbacks,
                   missed_callbacks, handle_ret>>

\* stopTimer that also clears remaining_ticks.
StopTimer_Clears(h) ==
    /\ IF findTimer(h) = 0
       THEN /\ ret' = RTOS_ERR_INVALID_PARAM
            /\ UNCHANGED <<timers, watch>>
       ELSE /\ ret' = RTOS_OK
            /\ IF timers[findTimer(h)].state = TIMER_STOPPED
               THEN UNCHANGED <<timers, watch>>
               ELSE /\ timers' = [timers EXCEPT ![findTimer(h)].state = TIMER_STOPPED,
                                                ![findTimer(h)].remaining_ticks = 0]
                    /\ watch' = [watch EXCEPT ![findTimer(h)] = Unwatched]
    /\ UNCHANGED <<timerFrame, timer_count, next_handle, initialized, total_callbacks,
                   missed_callbacks, handle_ret>>

\* TimerManager::stopTimer(handle).
StopTimer(h) ==
    /\ IF findTimer(h) = 0
       THEN /\ ret' = RTOS_ERR_INVALID_PARAM
            /\ UNCHANGED <<timers, watch>>
       ELSE /\ ret' = RTOS_OK
            /\ IF timers[findTimer(h)].state = TIMER_STOPPED
               THEN UNCHANGED <<timers, watch>>
               ELSE /\ timers' = [timers EXCEPT ![findTimer(h)].state = TIMER_STOPPED]
                    /\ watch' = [watch EXCEPT ![findTimer(h)] = Unwatched]
    /\ UNCHANGED <<timerFrame, timer_count, next_handle, initialized, total_callbacks,
                   missed_callbacks, handle_ret>>

\* resetTimer with the reload of remaining_ticks left out.
ResetTimer_NoReload(h) ==
    /\ IF findTimer(h) = 0
       THEN /\ ret' = RTOS_ERR_INVALID_PARAM
            /\ UNCHANGED <<timers, watch>>
       ELSE /\ ret' = RTOS_OK
            /\ timers' = [timers EXCEPT ![findTimer(h)].state = TIMER_RUNNING]
            /\ watch' = [watch EXCEPT ![findTimer(h)] =
                            Tracking(h, "reset")]
    /\ UNCHANGED <<timerFrame, timer_count, next_handle, initialized, total_callbacks,
                   missed_callbacks, handle_ret>>

\* TimerManager::resetTimer(handle).
ResetTimer(h) ==
    /\ IF findTimer(h) = 0
       THEN /\ ret' = RTOS_ERR_INVALID_PARAM
            /\ UNCHANGED <<timers, watch>>
       ELSE /\ ret' = RTOS_OK
            /\ timers' = [timers EXCEPT
                            ![findTimer(h)].remaining_ticks = timers[findTimer(h)].period_ticks,
                            ![findTimer(h)].state = TIMER_RUNNING]
            /\ watch' = [watch EXCEPT ![findTimer(h)] =
                            Tracking(h, "reset")]
    /\ UNCHANGED <<timerFrame, timer_count, next_handle, initialized, total_callbacks,
                   missed_callbacks, handle_ret>>

\* changeTimerPeriod that leaves remaining_ticks of a running timer alone.
ChangeTimerPeriod_KeepsRemaining(h, new_period) ==
    /\ IF findTimer(h) = 0 \/ new_period = 0
       THEN /\ ret' = RTOS_ERR_INVALID_PARAM
            /\ UNCHANGED <<timers, watch>>
       ELSE /\ ret' = RTOS_OK
            /\ timers' = [timers EXCEPT ![findTimer(h)].period_ticks = new_period]
            /\ watch' = [watch EXCEPT ![findTimer(h)] = Unwatched]
    /\ UNCHANGED <<timerFrame, timer_count, next_handle, initialized, total_callbacks,
                   missed_callbacks, handle_ret>>

\* TimerManager::changeTimerPeriod(handle, new_period).
ChangeTimerPeriod(h, new_period) ==
    /\ IF findTimer(h) = 0 \/ new_period = 0
       THEN /\ ret' = RTOS_ERR_INVALID_PARAM
            /\ UNCHANGED <<timers, watch>>
       ELSE /\ ret' = RTOS_OK
            /\ timers' = [timers EXCEPT
                            ![findTimer(h)].period_ticks = new_period,
                            ![findTimer(h)].remaining_ticks =
                                IF timers[findTimer(h)].state = TIMER_RUNNING
                                THEN new_period ELSE @]
            /\ watch' = [watch EXCEPT ![findTimer(h)] = Unwatched]
    /\ UNCHANGED <<timerFrame, timer_count, next_handle, initialized, total_callbacks,
                   missed_callbacks, handle_ret>>

\* A slot that the loop of tick() works on (timer.cpp:238).
Ticking(t) == t.handle # 0 /\ t.state = TIMER_RUNNING
\* remaining_ticks after the decrement (timer.cpp:243-245).
Decremented(t) == IF t.remaining_ticks > 0 THEN t.remaining_ticks - 1 ELSE 0
\* The slot expires on this tick (timer.cpp:248).
Expires(t) == Ticking(t) /\ Decremented(t) = 0

\* The loop body on an expiring slot with the reload of a periodic timer
\* left out.
tickTimer_NoReload(t) ==
    IF ~Ticking(t) THEN t
    ELSE IF ~Expires(t) THEN [t EXCEPT !.remaining_ticks = Decremented(t)]
    ELSE [t EXCEPT !.expiry_count = (@ + 1) % ExpiryWrap,
                   !.remaining_ticks = 0,
                   !.state = IF t.auto_reload THEN @ ELSE TIMER_STOPPED]

\* The loop body with a one-shot timer left RUNNING after it fired.
tickTimer_NoStop(t) ==
    IF ~Ticking(t) THEN t
    ELSE IF ~Expires(t) THEN [t EXCEPT !.remaining_ticks = Decremented(t)]
    ELSE [t EXCEPT !.expiry_count = (@ + 1) % ExpiryWrap,
                   !.remaining_ticks = IF t.auto_reload THEN t.period_ticks ELSE 0]

\* The loop body of TimerManager::tick() on one slot (timer.cpp:236-262).
tickTimer(t) ==
    IF ~Ticking(t) THEN t
    ELSE IF ~Expires(t) THEN [t EXCEPT !.remaining_ticks = Decremented(t)]
    ELSE [t EXCEPT !.expiry_count = (@ + 1) % ExpiryWrap,
                   !.remaining_ticks = IF t.auto_reload THEN t.period_ticks ELSE 0,
                   !.state = IF t.auto_reload THEN @ ELSE TIMER_STOPPED]

\* The callbacks that executeCallback invokes on this tick, and those it
\* finds null (timer.cpp:275-282).
Invoked == {i \in Slots : Expires(timers[i]) /\ timers[i].callback}
Missed == {i \in Slots : Expires(timers[i]) /\ ~timers[i].callback}

\* TimerManager::tick() (TimerAPI::processTick); the callbacks of the model
\* count their invocations and call nothing.
TimerTick ==
    /\ timers' = [i \in Slots |-> tickTimer(timers[i])]
    /\ total_callbacks' = (total_callbacks + Cardinality(Invoked)) % CountWrap
    /\ missed_callbacks' = (missed_callbacks + Cardinality(Missed)) % CountWrap
    /\ watch' = [i \in Slots |->
                    IF ~watch[i].tracked THEN watch[i]
                    ELSE IF watch[i].n = MaxTicks THEN Unwatched
                    ELSE [tracked |-> TRUE, n |-> watch[i].n + 1,
                          fired |-> watch[i].fired + (IF i \in Invoked THEN 1 ELSE 0),
                          by |-> watch[i].by]]
    /\ UNCHANGED <<timerFrame, ret, timer_count, next_handle, initialized, handle_ret>>

\* No timer exists.
NoTimer == \A i \in Slots : timers[i].handle = 0

\* A program that keeps one timer at a time: it creates, starts, stops,
\* resets, retunes and destroys it while the ticks come in.
TimerNext ==
    \/ TimerInit
    \/ NoTimer /\ \E p \in 0 .. MaxPeriod, ty \in {TIMER_ONE_SHOT, TIMER_PERIODIC},
                     cb \in BOOLEAN : CreateTimer(p, ty, cb)
    \/ \E h \in Handles : DeleteTimer(h)
    \/ \E h \in Handles : StartTimer(h)
    \/ \E h \in Handles : StopTimer(h)
    \/ \E h \in Handles : ResetTimer(h)
    \/ \E h \in Handles, p \in 0 .. MaxPeriod : ChangeTimerPeriod(h, p)
    \/ TimerTick

SpecTimer == Init /\ [][TimerNext]_vars

\* -------------------------------------------------------------------- heap
\* The RTOSHeap (src/util/rtos_heap.cpp) over a word-addressed buffer.  The
\* operations are functions of the heap h = [arena, first_block, last_block,
\* stats, status, ret]: status is "ok" while every call has returned, "hung"
\* when a call does not return (a loop over a cyclic chain), "fault" when a
\* call did something the language leaves undefined or read a word that holds
\* another kind of value than the field it is read as; ret is the pointer the
\* last allocating call returned.
heapFrame == <<schedVars, mutexVars, delay_left, semVars, queueVars, timerVars, poolVars>>

Heap ==
    [arena |-> arena, first_block |-> first_block, last_block |-> last_block,
     stats |-> stats, status |-> heap_status, ret |-> heap_ret, log |-> heap_log]

\* The fields findFreeBlock, updateStats and coalesceBlocks read of a block
\* hold values of their kinds.
Sound(h, b) ==
    /\ Inside(b)
    /\ IsSize(Field(h, b, "size"))
    /\ IsFlag(Field(h, b, "is_free"))
    /\ IsLink(Field(h, b, "next"))
    /\ IsLink(Field(h, b, "prev"))

\* RTOSHeap::findFreeBlock(size), from the block current on; fuel counts the
\* blocks still to visit before one is visited twice.
RECURSIVE findFrom(_, _, _, _)
findFrom(h, current, size, fuel) ==
    IF current = NullBlock THEN [block |-> NullBlock, status |-> "ok"]
    ELSE IF fuel = 0 THEN [block |-> NullBlock, status |-> "hung"]
    ELSE IF ~Sound(h, current) THEN [block |-> NullBlock, status |-> "fault"]
    ELSE IF Field(h, current, "is_free") = 1 /\ Field(h, current, "size") >= size
         THEN [block |-> current, status |-> "ok"]
    ELSE findFrom(h, Field(h, current, "next"), size, fuel - 1)

findFreeBlock(h, size) == findFrom(h, h.first_block, size, HeapWords)

\* block->size - size - sizeof(HeapBlock) in size_t arithmetic
\* (rtos_heap.cpp:61).
Remaining(h, block, size) ==
    (Field(h, block, "size") - size - sizeofHeapBlock) % SizeWrap

\* to->next = from->next.
setNext(h, to, from) == Store(h, to, "next", Field(h, from, "next"))
\* if (of->next) of->next->prev = to.
setPrevOfNext(h, of, to) ==
    IF Field(h, of, "next") # NullBlock
    THEN Store(h, Field(h, of, "next"), "prev", to)
    ELSE h
\* if (was == last_block) last_block = now; stats.num_blocks += delta.
countBlocks(h, was, now, delta) ==
    IF h.status # "ok" THEN h
    ELSE [h EXCEPT !.last_block = IF was = @ THEN now ELSE @,
                   !.stats.num_blocks = (@ + delta) % SizeWrap]

\* RTOSHeap::splitBlock(block, size): the stores of lines 70-81, innermost
\* first.
splitBlock(h, block, size) ==
    LET remaining == Remaining(h, block, size)
        new_block == block + sizeofHeapBlock + size
    IN  IF remaining < MIN_BLOCK_SIZE THEN h
        ELSE countBlocks(
                 Store(
                   Store(
                     setPrevOfNext(
                       Store(
                         Store(
                           setNext(
                             Store(
                               Store(h, new_block, "size", remaining),
                               new_block, "is_free", 1),
                             new_block, block),
                           new_block, "prev", block),
                         new_block, "magic", HEAP_MAGIC),
                       block, new_block),
                     block, "next", new_block),
                   block, "size", size),
                 block, new_block, 1)

\* The while loop of coalesceBlocks(block) (rtos_heap.cpp:98-113).
RECURSIVE mergeNext(_, _, _)
mergeNext(h, block, fuel) ==
    LET next == Field(h, block, "next")
    IN  IF h.status # "ok" THEN h
        ELSE IF ~IsLink(next) THEN Fail(h, "fault")
        ELSE IF next = NullBlock THEN h
        ELSE IF ~Inside(next) \/ ~IsFlag(Field(h, next, "is_free")) THEN Fail(h, "fault")
        ELSE IF Field(h, next, "is_free") = 0 THEN h
        ELSE IF fuel = 0 THEN Fail(h, "hung")
        ELSE IF \/ ~IsSize(Field(h, block, "size"))
                \/ ~IsSize(Field(h, next, "size"))
                \/ ~IsLink(Field(h, next, "next"))
             THEN Fail(h, "fault")
        ELSE mergeNext(
                 countBlocks(
                   setPrevOfNext(
                     setNext(
                       Store(h, block, "size",
                             (Field(h, block, "size") + sizeofHeapBlock
                                + Field(h, next, "size")) % SizeWrap),
                       block, next),
                     next, block),
                   next, block, -1),
                 block, fuel - 1)

\* RTOSHeap::coalesceBlocks(block); depth bounds the recursion into prev.
\* coalescePrev is the test of block->prev after the loop (lines 116-118).
RECURSIVE coalesceBlocks(_, _, _)
coalescePrev(h, block, depth) ==
    LET prev == Field(h, block, "prev")
    IN  IF h.status # "ok" THEN h
        ELSE IF ~IsLink(prev) THEN Fail(h, "fault")
        ELSE IF prev = NullBlock THEN h
        ELSE IF ~Inside(prev) \/ ~IsFlag(Field(h, prev, "is_free"))
             THEN Fail(h, "fault")
        ELSE IF Field(h, prev, "is_free") = 0 THEN h
        ELSE IF depth = 0 THEN Fail(h, "hung")
        ELSE coalesceBlocks(h, prev, depth - 1)
coalesceBlocks(h, block, depth) ==
    IF h.status # "ok" \/ block = NullBlock THEN h
    ELSE IF ~Inside(block) \/ ~IsFlag(Field(h, block, "is_free")) THEN Fail(h, "fault")
    ELSE IF Field(h, block, "is_free") = 0 THEN h
    ELSE coalescePrev(mergeNext(h, block, HeapWords), block, depth)

\* RTOSHeap::validateBlock(block).  A block outside the arena fails the
\* bounds check whatever its magic word reads.
validateBlock(h, block) ==
    /\ block # NullBlock
    /\ Inside(block)
    /\ Field(h, block, "magic") = HEAP_MAGIC

\* RTOSHeap::updateStats(), the sums from the block current on.
RECURSIVE sumFrom(_, _, _, _)
sumFrom(h, current, acc, fuel) ==
    IF current = NullBlock THEN acc
    ELSE IF fuel = 0 THEN [acc EXCEPT !.status = "hung"]
    ELSE IF ~Sound(h, current) THEN [acc EXCEPT !.status = "fault"]
    ELSE sumFrom(h, Field(h, current, "next"),
                 IF Field(h, current, "is_free") = 1
                 THEN [acc EXCEPT !.free = (@ + Field(h, current, "size")) % SizeWrap,
                                  !.largest = IF Field(h, current, "size") > @
                                              THEN Field(h, current, "size") ELSE @]
                 ELSE [acc EXCEPT !.allocated = (@ + Field(h, current, "size")) % SizeWrap],
                 fuel - 1)

updateStats(h) ==
    LET sums == sumFrom(h, h.first_block,
                        [free |-> 0, allocated |-> 0, largest |-> 0, status |-> "ok"],
                        HeapWords)
    IN  IF h.status # "ok" THEN h
        ELSE IF sums.status # "ok" THEN Fail(h, sums.status)
        ELSE [h EXCEPT !.stats.free_size = sums.free,
                       !.stats.allocated_size = sums.allocated,
                       !.stats.largest_free_block = sums.largest]

\* (size + 7) & ~7.
Align(size) == (((size + 7) \div 8) * 8) % SizeWrap

\* RTOSHeap::malloc(size).  mallocTaken is the accounting of lines 186-192 on
\* the heap with the block split and marked; mallocFound is lines 173-183 on
\* what findFreeBlock returned.
mallocTaken(h, block) ==
    LET bsize == Field(h, block, "size")
        allocated == (h.stats.allocated_size + bsize) % SizeWrap
    IN  IF h.status # "ok" THEN [h EXCEPT !.ret = NullBlock]
        ELSE [h EXCEPT !.stats.num_allocations = (@ + 1) % SizeWrap,
                       !.stats.allocated_size = allocated,
                       !.stats.free_size = (@ - bsize) % SizeWrap,
                       !.stats.peak_allocated = IF allocated > @ THEN allocated ELSE @,
                       !.ret = block + sizeofHeapBlock]
mallocFound(h, asize, found) ==
    IF found.status # "ok" THEN [Fail(h, found.status) EXCEPT !.ret = NullBlock]
    ELSE IF found.block = NullBlock THEN [h EXCEPT !.ret = NullBlock]
    ELSE mallocTaken(Store(splitBlock(h, found.block, asize), found.block, "is_free", 0),
                     found.block)
malloc(h, size) ==
    IF size = 0 THEN [h EXCEPT !.ret = NullBlock]
    ELSE mallocFound(h, Align(size), findFreeBlock(h, Align(size)))

\* free that does not look at the is_free flag.
free_NoDoubleFreeCheck(h, ptr) ==
    LET block == ptr - sizeofHeapBlock
    IN  IF ptr = NullBlock THEN h
        ELSE IF ~validateBlock(h, block) THEN [h EXCEPT !.log = InvalidBlock]
        ELSE IF ~IsSize(Field(h, block, "size")) THEN Fail(h, "fault")
        ELSE coalesceBlocks(
                 [Store(h, block, "is_free", 1) EXCEPT
                     !.stats.num_frees = (@ + 1) % SizeWrap,
                     !.stats.allocated_size = (@ - Field(h, block, "size")) % SizeWrap,
                     !.stats.free_size = (@ + Field(h, block, "size")) % SizeWrap],
                 block, HeapWords)

\* RTOSHeap::free(ptr).
free(h, ptr) ==
    LET block == ptr - sizeofHeapBlock
    IN  IF ptr = NullBlock THEN h
        ELSE IF ~validateBlock(h, block) THEN [h EXCEPT !.log = InvalidBlock]
        ELSE IF ~IsFlag(Field(h, block, "is_free")) THEN Fail(h, "fault")
        ELSE IF Field(h, block, "is_free") = 1 THEN [h EXCEPT !.log = DoubleFree]
        ELSE IF ~IsSize(Field(h, block, "size")) THEN Fail(h, "fault")
        ELSE coalesceBlocks(
                 [Store(h, block, "is_free", 1) EXCEPT
                     !.stats.num_frees = (@ + 1) % SizeWrap,
                     !.stats.allocated_size = (@ - Field(h, block, "size")) % SizeWrap,
                     !.stats.free_size = (@ + Field(h, block, "size")) % SizeWrap],
                 block, HeapWords)

\* memcpy(dst, src, n) and memset(dst, 0, n) on whole words of the arena; a
\* range that leaves the buffer, or ranges that overlap, are undefined.
WordsOf(p, n) == {p + 8 * i : i \in 0 .. (n \div 8) - 1}
memcpy(h, dst, src, n) ==
    IF h.status # "ok" THEN h
    ELSE IF \/ ~IsSize(n)
            \/ ~(WordsOf(dst, n) \subseteq Cells)
            \/ ~(WordsOf(src, n) \subseteq Cells)
            \/ WordsOf(dst, n) \cap WordsOf(src, n) # {}
         THEN Fail(h, "fault")
    ELSE [h EXCEPT !.arena = [c \in Cells |->
                                IF c \in WordsOf(dst, n) THEN h.arena[src + (c - dst)]
                                ELSE h.arena[c]]]
memset0(h, dst, n) ==
    IF h.status # "ok" THEN h
    ELSE IF ~IsSize(n) \/ ~(WordsOf(dst, n) \subseteq Cells) THEN Fail(h, "fault")
    ELSE [h EXCEPT !.arena = [c \in Cells |-> IF c \in WordsOf(dst, n) THEN 0 ELSE h.arena[c]]]

\* RTOSHeap::realloc(ptr, new_size).  reallocMoved is lines 268-279 on the heap
\* malloc has left.
reallocMoved(h, ptr, block) ==
    IF h.status # "ok" \/ h.ret = NullBlock THEN h
    ELSE free(memcpy(h, h.ret, ptr, Field(h, block, "size")), ptr)
realloc(h, ptr, new_size) ==
    LET block == ptr - sizeofHeapBlock
    IN  IF ptr = NullBlock THEN malloc(h, new_size)
        ELSE IF new_size = 0 THEN [free(h, ptr) EXCEPT !.ret = NullBlock]
        ELSE IF ~validateBlock(h, block) THEN [h EXCEPT !.ret = NullBlock]
        ELSE IF new_size <= Field(h, block, "size") THEN [h EXCEPT !.ret = ptr]
        ELSE reallocMoved(malloc(h, new_size), ptr, block)

\* RTOSHeap::calloc(num, size); the model passes multiples of 8, so that the
\* memset covers whole words.  callocZeroed is lines 287-289 on the heap
\* malloc has left.
callocZeroed(h, total_size) ==
    IF h.status # "ok" \/ h.ret = NullBlock THEN h
    ELSE memset0(h, h.ret, total_size)
calloc(h, num, size) ==
    callocZeroed(malloc(h, (num * size) % SizeWrap), (num * size) % SizeWrap)

\* The loop of RTOSHeap::defragment(); defragNext is current = current->next
\* after the body.
RECURSIVE defragFrom(_, _, _)
defragNext(h, current, fuel) ==
    IF h.status # "ok" THEN h
    ELSE IF ~IsLink(Field(h, current, "next")) THEN Fail(h, "fault")
    ELSE defragFrom(h, Field(h, current, "next"), fuel - 1)
defragFrom(h, current, fuel) ==
    IF h.status # "ok" \/ current = NullBlock THEN h
    ELSE IF fuel = 0 THEN Fail(h, "hung")
    ELSE IF ~Inside(current) \/ ~IsFlag(Field(h, current, "is_free")) THEN Fail(h, "fault")
    ELSE defragNext(IF Field(h, current, "is_free") = 1
                    THEN coalesceBlocks(h, current, HeapWords) ELSE h,
                    current, fuel)

\* RTOSHeap::defragment().
defragment(h) == updateStats(defragFrom(h, h.first_block, HeapWords))

\* RTOSHeap::checkIntegrity() from the block current on: "true", "false", or
\* "loops" when the walk comes back to a block it has checked and so never
\* ends.
RECURSIVE checkFrom(_, _, _)
checkFrom(h, current, fuel) ==
    IF current = NullBlock THEN "true"
    ELSE IF ~validateBlock(h, current) THEN "false"
    ELSE IF ~IsLink(Field(h, current, "next")) THEN "fault"
    ELSE IF /\ Field(h, current, "next") # NullBlock
            /\ ~Inside(Field(h, current, "next"))
         THEN "fault"
    ELSE IF /\ Field(h, current, "next") # NullBlock
            /\ Field(h, Field(h, current, "next"), "prev") # current
         THEN "false"
    ELSE IF fuel = 0 THEN "loops"
    ELSE checkFrom(h, Field(h, current, "next"), fuel - 1)

checkIntegrity(h) == checkFrom(h, h.first_block, HeapWords)

\* The heap after a call, and the pointers the program then holds.
HeapSet(h, held) ==
    /\ arena' = h.arena
    /\ first_block' = h.first_block
    /\ last_block' = h.last_block
    /\ stats' = h.stats
    /\ heap_status' = h.status
    /\ heap_ret' = h.ret
    /\ heap_log' = h.log
    /\ outstanding' = held
    /\ UNCHANGED heapFrame

\* A call made while no other caller is inside the heap: it finds lock_flag
\* false and leaves it false.
HeapBecomes(h, held) ==
    /\ HeapSet(h, held)
    /\ UNCHANGED lockVars

Returned(h) == IF h.status = "ok" /\ h.ret # NullBlock THEN {h.ret} ELSE {}

\* The program makes a bounded number of successful allocations and frees.
CanAllocate == heap_status = "ok" /\ stats.num_allocations < MaxAllocs
CanFree == heap_status = "ok" /\ stats.num_frees < MaxFrees

\* The heap an allocating call leaves; the program keeps what it returned.
Allocated(h) == HeapBecomes(h, outstanding \cup Returned(h))

Malloc(size) ==
    /\ CanAllocate
    /\ Allocated(malloc(Heap, size))

Calloc(num, size) ==
    /\ CanAllocate
    /\ Allocated(calloc(Heap, num, size))

Free(ptr) ==
    /\ CanFree
    /\ HeapBecomes(free(Heap, ptr), outstanding \ {ptr})

\* realloc gives up ptr when it returns another pointer or, for size 0, null.
Reallocated(h, ptr, new_size) ==
    HeapBecomes(h, IF h.status = "ok" /\ (h.ret # NullBlock \/ new_size = 0)
                   THEN (outstanding \ {ptr}) \cup Returned(h)
                   ELSE outstanding)

Realloc(ptr, new_size) ==
    /\ CanAllocate /\ CanFree
    /\ Reallocated(realloc(Heap, ptr, new_size), ptr, new_size)

Defragment ==
    /\ heap_status = "ok"
    /\ HeapBecomes(defragment(Heap), outstanding)

\* The sizes the program asks for, and the pointers it passes: null, the
\* pointers to word boundaries inside the arena (the heap's own among them),
\* one whose header would lie before the buffer and one beyond it.
Requests == {0, 1} \cup {8 * k : k \in 1 .. MaxRequest}
Pointers ==
    {NullBlock, heap_start, heap_end + sizeofHeapBlock}
        \cup {c \in Cells : c >= heap_start + sizeofHeapBlock} \cup {heap_end}

\* A program that passes any pointer to free, and null or a pointer it holds
\* to realloc.
HeapNext ==
    \/ \E size \in Requests : Malloc(size)
    \/ \E num \in 1 .. 2 : Calloc(num, 8)
    \/ \E ptr \in Pointers : Free(ptr)
    \/ \E ptr \in outstanding \cup {NullBlock}, size \in Requests : Realloc(ptr, size)
    \/ Defragment

SpecHeap == Init /\ [][HeapNext]_vars

\* A program that frees and reallocates only pointers the heap returned to it
\* and that it has not freed since.
HeapOwnNext ==
    \/ \E size \in Requests : Malloc(size)
    \/ \E num \in 1 .. 2 : Calloc(num, 8)
    \/ \E ptr \in outstanding : Free(ptr)
    \/ \E ptr \in outstanding, size \in Requests : Realloc(ptr, size)
    \/ Defragment

SpecHeapOwn == Init /\ [][HeapOwnNext]_vars

\* A program that only calls malloc and free, and frees only pointers the
\* heap returned to it and that it has not freed since.
MallocFreeNext ==
    \/ \E size \in Requests : Malloc(size)
    \/ \E ptr \in outstanding : Free(ptr)

SpecMallocFree == Init /\ [][MallocFreeNext]_vars

\* --------------------------------------------------------------- heap lock
\* The public operations step by step, for callers that interleave.  A caller
\* is "idle" outside the heap, at "lock_test" in the while loop of lock()
\* (rtos_heap.cpp:35-37), at "lock_set" between that loop and the store of
\* line 38, at "body" between lock() and unlock() with the work of the
\* operation still to do, at "unlock" with the work done, and, inside
\* realloc, at "check" before lines 253-265 and at "copy" before the memcpy
\* of line 274.  The work between lock() and unlock() is one step.

\* A caller enters malloc(size), size > 0, free(ptr), ptr non-null, or
\* defragment(): each starts with lock().
CallMalloc(c, size) ==
    /\ heap_pc[c] = "idle"
    /\ CanAllocate
    /\ heap_pc' = [heap_pc EXCEPT ![c] = "lock_test"]
    /\ heap_call' = [heap_call EXCEPT ![c] = [NoHeapCall EXCEPT !.op = "malloc", !.size = size]]
    /\ UNCHANGED <<heapFrame, heapVars, lock_flag>>

CallFree(c, ptr) ==
    /\ heap_pc[c] = "idle"
    /\ CanFree
    /\ heap_pc' = [heap_pc EXCEPT ![c] = "lock_test"]
    /\ heap_call' = [heap_call EXCEPT ![c] = [NoHeapCall EXCEPT !.op = "free", !.ptr = ptr]]
    /\ UNCHANGED <<heapFrame, heapVars, lock_flag>>

CallDefragment(c) ==
    /\ heap_pc[c] = "idle"
    /\ heap_status = "ok"
    /\ heap_pc' = [heap_pc EXCEPT ![c] = "lock_test"]
    /\ heap_call' = [heap_call EXCEPT ![c] = [NoHeapCall EXCEPT !.op = "defragment"]]
    /\ UNCHANGED <<heapFrame, heapVars, lock_flag>>

\* A caller enters realloc(ptr, new_size) with ptr non-null and new_size > 0.
CallRealloc(c, ptr, new_size) ==
    /\ heap_pc[c] = "idle"
    /\ CanAllocate /\ CanFree
    /\ heap_pc' = [heap_pc EXCEPT ![c] = "check"]
    /\ heap_call' = [heap_call EXCEPT ![c] =
                        [NoHeapCall EXCEPT !.op = "realloc", !.ptr = ptr, !.size = new_size]]
    /\ UNCHANGED <<heapFrame, heapVars, lock_flag>>

\* realloc, lines 253-268: the header of the block is validated and its size
\* read; realloc returns, or goes on to malloc(new_size).
ReallocCheck(c) ==
    /\ heap_pc[c] = "check"
    /\ LET block == heap_call[c].ptr - sizeofHeapBlock
           done == \/ ~validateBlock(Heap, block)
                   \/ heap_call[c].size <= Field(Heap, block, "size")
       IN  /\ heap_pc' = [heap_pc EXCEPT ![c] = IF done THEN "idle" ELSE "lock_test"]
           /\ heap_call' = [heap_call EXCEPT ![c] = IF done THEN NoHeapCall ELSE @]
    /\ UNCHANGED <<heapFrame, heapVars, lock_flag>>

\* lock(): the test of lock_flag that ends the while loop.
LockTest(c) ==
    /\ heap_pc[c] = "lock_test"
    /\ ~lock_flag
    /\ heap_pc' = [heap_pc EXCEPT ![c] = "lock_set"]
    /\ UNCHANGED <<heapFrame, heapVars, lock_flag, heap_call>>

\* lock(): lock_flag = true.
LockSet(c) ==
    /\ heap_pc[c] = "lock_set"
    /\ lock_flag' = TRUE
    /\ heap_pc' = [heap_pc EXCEPT ![c] = "body"]
    /\ UNCHANGED <<heapFrame, heapVars, heap_call>>

\* The heap h that the work of caller c leaves, the pointers then held, and
\* the pointer realloc's malloc returned.
Worked(c, h) ==
    LET k == heap_call[c]
        first == k.op = "realloc"
    IN  /\ HeapSet(h, IF k.op = "malloc" \/ first THEN outstanding \cup Returned(h)
                      ELSE IF k.op \in {"free", "realloc_free"} THEN outstanding \ {k.ptr}
                      ELSE outstanding)
        /\ heap_pc' = [heap_pc EXCEPT ![c] = "unlock"]
        /\ heap_call' = [heap_call EXCEPT ![c].new_ptr =
                            IF first /\ h.status = "ok" THEN h.ret ELSE @]
        /\ UNCHANGED lock_flag

\* The work of the operation between lock() and unlock().  Inside realloc
\* the call is malloc(new_size) first and free(ptr) after the copy.
HeapBody(c) ==
    /\ heap_pc[c] = "body"
    /\ LET k == heap_call[c]
           h == IF k.op = "malloc" THEN malloc(Heap, k.size)
                ELSE IF k.op = "realloc" THEN malloc(Heap, k.size)
                ELSE IF k.op = "defragment" THEN defragment(Heap)
                ELSE free(Heap, k.ptr)
       IN  Worked(c, h)

\* unlock(), and what follows it: the operation returns, or realloc goes on
\* to the memcpy.
HeapUnlock(c) ==
    /\ heap_pc[c] = "unlock"
    /\ lock_flag' = FALSE
    /\ LET on == heap_call[c].op = "realloc" /\ heap_call[c].new_ptr # NullBlock
       IN  /\ heap_pc' = [heap_pc EXCEPT ![c] = IF on THEN "copy" ELSE "idle"]
           /\ heap_call' = [heap_call EXCEPT ![c] = IF on THEN @ ELSE NoHeapCall]
    /\ UNCHANGED <<heapFrame, heapVars>>

\* realloc, line 274: memcpy(new_ptr, ptr, block->size), then free(ptr).
ReallocCopy(c) ==
    /\ heap_pc[c] = "copy"
    /\ HeapSet(memcpy(Heap, heap_call[c].new_ptr, heap_call[c].ptr,
                      Field(Heap, heap_call[c].ptr - sizeofHeapBlock, "size")),
               outstanding)
    /\ heap_pc' = [heap_pc EXCEPT ![c] = "lock_test"]
    /\ heap_call' = [heap_call EXCEPT ![c].op = "realloc_free"]
    /\ UNCHANGED lock_flag

LockNext ==
    \E c \in Callers :
        \/ CallMalloc(c, 8)
        \/ \E ptr \in outstanding : CallFree(c, ptr)
        \/ CallDefragment(c)
        \/ \E ptr \in outstanding : CallRealloc(c, ptr, 24)
        \/ ReallocCheck(c)
        \/ LockTest(c)
        \/ LockSet(c)
        \/ HeapBody(c)
        \/ HeapUnlock(c)
        \/ ReallocCopy(c)

SpecHeapLock == Init /\ [][LockNext]_vars

\* -------------------------------------------------------------------- pool
\* MemoryPool<T, POOL_SIZE> (src/util/memory_pool.h) with POOL_SIZE = PoolSize.
poolFrame == <<schedVars, mutexVars, delay_left, semVars, queueVars, timerVars, heapVars,
              lockVars>>

\* MemoryPool::allocate().
Allocate ==
    /\ IF free_list = NullSlot
       THEN /\ pool_ret' = NullSlot
            /\ UNCHANGED <<pool, free_list, allocated_count>>
       ELSE /\ free_list' = pool[free_list].next_free
            /\ pool' = [pool EXCEPT ![free_list].allocated = TRUE]
            /\ allocated_count' = allocated_count + 1
            /\ pool_ret' = free_list
    /\ UNCHANGED <<poolFrame, pool_gone>>

\* deallocate without the test of the allocated flag.
Deallocate_NoFlagTest(ptr) ==
    /\ IF ptr = NullSlot \/ ptr \notin PoolSlots
       THEN /\ UNCHANGED <<pool, free_list, allocated_count>>
            /\ pool_gone' = [ptr |-> ptr, returned |-> FALSE]
       ELSE /\ pool' = [pool EXCEPT ![ptr].allocated = FALSE,
                                    ![ptr].next_free = free_list]
            /\ free_list' = ptr
            /\ allocated_count' = (allocated_count - 1) % SizeWrap
            /\ pool_gone' = [ptr |-> ptr, returned |-> TRUE]
    /\ UNCHANGED <<poolFrame, pool_ret>>

\* deallocate that counts a slot of the pool as given back although the
\* slot is not allocated.
Deallocate_CountsDoubleFree(ptr) ==
    /\ IF ptr = NullSlot \/ ptr \notin PoolSlots
       THEN /\ UNCHANGED <<pool, free_list, allocated_count>>
            /\ pool_gone' = [ptr |-> ptr, returned |-> FALSE]
       ELSE IF ~pool[ptr].allocated
       THEN /\ UNCHANGED <<pool, free_list>>
            /\ allocated_count' = (allocated_count - 1) % SizeWrap
            /\ pool_gone' = [ptr |-> ptr, returned |-> FALSE]
       ELSE /\ pool' = [pool EXCEPT ![ptr].allocated = FALSE,
                                    ![ptr].next_free = free_list]
            /\ free_list' = ptr
            /\ allocated_count' = (allocated_count - 1) % SizeWrap
            /\ pool_gone' = [ptr |-> ptr, returned |-> TRUE]
    /\ UNCHANGED <<poolFrame, pool_ret>>

\* MemoryPool::deallocate(ptr); ptr is the storage of slot ptr, or of no slot.
Deallocate(ptr) ==
    /\ IF ptr = NullSlot \/ ptr \notin PoolSlots \/ ~pool[ptr].allocated
       THEN /\ UNCHANGED <<pool, free_list, allocated_count>>
            /\ pool_gone' = [ptr |-> ptr, returned |-> FALSE]
       ELSE /\ pool' = [pool EXCEPT ![ptr].allocated = FALSE,
                                    ![ptr].next_free = free_list]
            /\ free_list' = ptr
            /\ allocated_count' = (allocated_count - 1) % SizeWrap
            /\ pool_gone' = [ptr |-> ptr, returned |-> TRUE]
    /\ UNCHANGED <<poolFrame, pool_ret>>

\* MemoryPool::get_free_count().
get_free_count == PoolSize - allocated_count

\* The slots on the free list from slot on, in list order; the walk stops at a
\* slot it has met before.
RECURSIVE FreeListFrom(_, _)
FreeListFrom(slot, seen) ==
    IF slot = NullSlot \/ slot \in seen THEN <<>>
    ELSE <<slot>> \o FreeListFrom(pool[slot].next_free, seen \cup {slot})
FreeList == FreeListFrom(free_list, {})
\* The free list ends in nullptr and not in a slot it holds already.
RECURSIVE EndsInNull(_, _)
EndsInNull(slot, fuel) ==
    IF slot = NullSlot THEN TRUE
    ELSE IF fuel = 0 THEN FALSE
    ELSE EndsInNull(pool[slot].next_free, fuel - 1)

\* A program that allocates and deallocates; it passes null, any slot's
\* storage, allocated or not, and a pointer into no slot.
PoolNext ==
    \/ Allocate
    \/ \E ptr \in 0 .. PoolSize + 1 : Deallocate(ptr)

SpecPool == Init /\ [][PoolNext]_vars

\* ------------------------------------------------------------------ claims
RunningTcbs == {t \in Tcb : state[t] = TASK_RUNNING}
Registered == Range(task_list)

C3_DelayExact ==
    [][\A t \in Addr :
          /\ delay_left'[t] > 0 => state'[t] = TASK_BLOCKED
          /\ (Tick /\ delay_left[t] = 1) => state'[t] = TASK_READY
          /\ (state[t] = TASK_BLOCKED /\ state'[t] = TASK_READY)
                => (Tick /\ delay_left[t] = 1)]_vars

\* No READY registered task has a strictly higher priority than a RUNNING TCB.
NoHigherReady ==
    \A r \in RunningTcbs, t \in Registered :
        state[t] = TASK_READY => priority[t] <= priority[r]

\* C4 (as claimed): under PRIORITY, after a yield or a tick-driven switch, no
\* READY task has a strictly higher priority than the RUNNING task.
C4_PriorityHighestRuns ==
    [][(/\ policy = SCHEDULER_PRIORITY
        /\ is_running
        /\ Yield \/ (Tick /\ current_task' # current_task))
         => NoHigherReady']_vars

\* C5: under COOPERATIVE a tick leaves the RUNNING task RUNNING and current.
C5_CoopTickKeepsRunning ==
    [][(policy = SCHEDULER_COOPERATIVE /\ Tick)
         => /\ RunningTcbs' = RunningTcbs
            /\ RunningTcbs # {} => current_task' = current_task]_vars

\* Under COOPERATIVE the RUNNING task has been ticked until its slice ran
\* out, with a registered task READY, and it is still RUNNING.
C5_Witness ==
    /\ policy = SCHEDULER_COOPERATIVE
    /\ is_running
    /\ current_task # NULLPTR
    /\ state[current_task] = TASK_RUNNING
    /\ time_slice[current_task] = 0
    /\ \E t \in Registered : state[t] = TASK_READY

\* C6: a TCB that becomes RUNNING was READY in the state before.
C6_RunningFromReady ==
    [][\A t \in Tcb :
          (state'[t] = TASK_RUNNING /\ state[t] # TASK_RUNNING)
            => state[t] = TASK_READY]_vars

\* A registered task has been made RUNNING while another registered task was
\* BLOCKED and a third TCB SUSPENDED or BLOCKED.
C6_Witness ==
    \E t \in live, u \in live :
        /\ t # u
        /\ state[t] = TASK_RUNNING
        /\ current_task = t
        /\ state[u] \in {TASK_BLOCKED, TASK_SUSPENDED}

\* C7 (as claimed): start() makes a registered task RUNNING when one is
\* READY, and selects the idle task only when none is.
C7_StartPicksRegistered ==
    [][(Start /\ is_initialized)
         => IF \E t \in Registered : state[t] = TASK_READY
            THEN current_task' \in Registered /\ state'[current_task'] = TASK_RUNNING
            ELSE current_task' = IdleTcb]_vars

\* C8 (as claimed): destroying the RUNNING task reschedules: afterwards
\* current_task is not the deleted task and some TCB is RUNNING.
C8_DestroyRunningReschedules ==
    [][\A t \in Addr :
          (DestroyTask(t) /\ state[t] = TASK_RUNNING)
            => (current_task' # t /\ RunningTcbs' # {})]_vars

\* C2 (as claimed): between a lock that returned RTOS_OK to a task and that
\* task's matching unlock, no lock or tryLock of another task returns RTOS_OK:
\* at most one task holds the Mutex, wherever the tick switches tasks.
C2_MutualExclusion == Cardinality(holders) <= 1

C10_FifoHandoff ==
    [][/\ \A h \in Addr :
             (Unlock(h, "Mutex") /\ mtx["Mutex"].owner = h /\ Len(waitq) >= 2)
               => mtx'["Mutex"].owner = Head(waitq)
       /\ \A t \in Addr :
             (LockAcquire(t) /\ call[t].kind = "Mutex" /\ waitq # <<>>)
               => t = Head(waitq)]_vars

\* C11: unlock by a task that is not the holder returns RTOS_ERR_INVALID_PARAM
\* and leaves the holder, the count and the locked flag of the Mutex and of
\* the RecursiveMutex as they were.
C11_UnlockByNonHolder ==
    [][\A t \in Addr, k \in MutexKinds :
          (Unlock(t, k) /\ mtx[k].owner # t)
            => (ret' = RTOS_ERR_INVALID_PARAM /\ mtx' = mtx)]_vars

\* The last call that returned was refused with RTOS_ERR_INVALID_PARAM while
\* both mutexes were held, the RecursiveMutex twice over, by the other task:
\* it was an unlock by a task that is not the holder.
C11_Witness ==
    /\ ret = RTOS_ERR_INVALID_PARAM
    /\ \E t \in live, u \in live :
          /\ t # u
          /\ current_task = t
          /\ pc[t] = "idle"
          /\ mtx["Mutex"] = MutexAcquired(u)
          /\ mtx["RecursiveMutex"].owner = u
          /\ mtx["RecursiveMutex"].recursive_count = MaxRecursion

\* C12 (as claimed): lock with timeout 0 (tryLock included) on a Mutex or a
\* RecursiveMutex held by another task returns RTOS_ERR_BUSY without a pass
\* through the wait loop, without a yield and without a write to the mutex.
C12_ZeroTimeoutBusy ==
    [][\A t \in Addr, k \in MutexKinds :
          /\ (LockBegin(t, k, 0) /\ mtx[k].is_locked /\ mtx[k].owner # t)
                => /\ mtx' = mtx
                   /\ current_task' = current_task
                   /\ pc'[t] = "idle" => ret' = RTOS_ERR_BUSY
          /\ (LockSpin(t) /\ call[t].kind = k /\ call[t].timeout = 0)
                => /\ pc'[t] = "idle"
                   /\ ret' = RTOS_ERR_BUSY
                   /\ mtx' = mtx
                   /\ current_task' = current_task]_vars

\* C13: a lock call with a finite nonzero timeout on a mutex held by another
\* task does not return at the call, and the only way it returns while the
\* mutex is held is RTOS_ERR_TIMEOUT, on a round of the wait loop taken when
\* all the ticks of the timeout have gone by since the call (wait_left counts
\* them without wrapping); the mutex record is the same before and after.
C13_TimeoutNotEarly ==
    [][\A t \in Addr :
          /\ \A k \in MutexKinds, timeout \in 1..MaxTimeout :
                (LockBegin(t, k, timeout) /\ mtx[k].is_locked /\ mtx[k].owner # t)
                   => (pc'[t] = "spin" /\ mtx' = mtx /\ ret' = ret)
          /\ (LockSpin(t) /\ call[t].timeout \in 1..MaxTimeout /\ pc'[t] = "idle")
                => /\ ret' = RTOS_ERR_TIMEOUT
                   /\ wait_left[t] = 0
                   /\ mtx[call[t].kind].is_locked
                   /\ mtx[call[t].kind].owner # t
                   /\ mtx' = mtx]_vars

\* A call has timed out, and a second one, made on the last tick before the
\* counter wrapped, is about to: the counter is back at 0 and the mutex is
\* still held by the other task.
C13_Witness ==
    /\ ret = RTOS_ERR_TIMEOUT
    /\ tick_count = 0
    /\ \E t \in live, u \in live :
          /\ t # u /\ current_task = t /\ pc[t] = "spin"
          /\ call[t].timeout = MaxTimeout
          /\ call[t].start_tick = TickMax
          /\ wait_left[t] = 0
          /\ mtx[call[t].kind].is_locked
          /\ mtx[call[t].kind].owner = u

\* C14: a semaphore obtained from createBinary or createCounting has
\* 0 <= count <= max_count in every state, the ticks arriving at any point
\* inside take and give, and a binary semaphore has max_count 1.
C14_CountInRange ==
    sem # NoSemaphore
       => /\ 0 <= sem.count
          /\ sem.count <= sem.max_count
          /\ sem.type = SEMAPHORE_BINARY => sem.max_count = 1

\* C15: a give on a semaphore whose count equals max_count returns
\* RTOS_ERR_FULL and leaves the semaphore as it was; every other give goes on
\* to its increment, which raises count by exactly 1, changes nothing else of
\* the semaphore and returns RTOS_OK.
C15_GiveResult ==
    [][\A t \in Addr :
          /\ (GiveBegin(t) /\ sem.count = sem.max_count)
                => (pc'[t] = "idle" /\ ret' = RTOS_ERR_FULL /\ sem' = sem)
          /\ (GiveBegin(t) /\ sem.count # sem.max_count)
                => (pc'[t] = "give_inc" /\ ret' = ret /\ sem' = sem)
          /\ GiveInc(t)
                => /\ ret' = RTOS_OK
                   /\ sem' = [sem EXCEPT !.count = sem.count + 1]]_vars

\* A give has just been refused on a counting semaphore that is full.
C15_Witness ==
    /\ ret = RTOS_ERR_FULL
    /\ sem.type = SEMAPHORE_COUNTING
    /\ sem.max_count = MaxSemCount
    /\ sem.count = sem.max_count
    /\ \E t \in live : current_task = t /\ pc[t] = "idle"

\* C16: every successful dequeue, on the Queue itself or inside receive, hands
\* out the oldest value enqueued and not yet dequeued: the k-th successful
\* dequeue returns the value of the k-th successful enqueue, the indices
\* wrapping any number of times.
C16_FifoOrder ==
    [][((Dequeue /\ ret' = BoolResult(TRUE)) \/ \E t \in Addr : DeqCommit(t))
          => (q_hist # <<>> /\ item' = Head(q_hist))]_vars

\* All the values have gone through a queue that holds fewer: the last one
\* has just been received, head and tail having wrapped.
C16_Witness ==
    /\ sent = MaxMsg
    /\ item = MaxMsg
    /\ ret = RTOS_OK
    /\ q_hist = <<>>
    /\ isEmpty(queue)
    /\ queue.head = MaxMsg % MaxItems
    /\ queue.tail = queue.head

\* C17: with several tasks inside send and receive and the tick switching
\* between them at any point, the queue holds exactly the messages sent and
\* not yet received, each once, whenever no call is in the middle of an
\* enqueue or dequeue.
C17_NoLossNoDup ==
    NoneInQueue => Contents(queue) = q_hist

\* C18: enqueue on a full Queue and dequeue on an empty one return false,
\* trySend on a full MessageQueue returns RTOS_ERR_FULL, tryReceive on an
\* empty one returns RTOS_ERR_EMPTY, and each leaves buffer, head, tail and
\* count as they were.
C18_FailedOpNoChange ==
    [][/\ \A v \in Msgs :
             (Enqueue(v) /\ queue.count = MaxItems)
                => (ret' = BoolResult(FALSE) /\ queue' = queue)
       /\ (Dequeue /\ queue.count = 0)
             => (ret' = BoolResult(FALSE) /\ queue' = queue)
       /\ \A t \in Addr, v \in Msgs :
             (TrySend(t, v) /\ queue.count = MaxItems)
                => (pc'[t] = "idle" /\ ret' = RTOS_ERR_FULL /\ queue' = queue)
       /\ \A t \in Addr :
             (TryReceive(t) /\ queue.count = 0)
                => (pc'[t] = "idle" /\ ret' = RTOS_ERR_EMPTY /\ queue' = queue)]_vars

\* A trySend has just been refused by a full queue that still holds the
\* values it held.
C18_Witness ==
    /\ ret = RTOS_ERR_FULL
    /\ queue.count = MaxItems
    /\ Contents(queue) = q_hist
    /\ sent = MaxItems + 1
    /\ \E t \in live : current_task = t /\ pc[t] = "idle"

\* The timer in slot i has a handle, is of the given type, and is followed by
\* the history since the start or reset that set it going.
Watched(i, type) ==
    watch[i].tracked /\ timers[i].handle # 0 /\ timers[i].type = type

\* C19 as stated: n ticks after its start a PERIODIC timer of period P is
\* RUNNING, its callback has been invoked floor(n / P) times, and its
\* expiry_count equals that number.
C19_ExpiryIsFired ==
    \A i \in Slots :
        Watched(i, TIMER_PERIODIC)
           => /\ timers[i].state = TIMER_RUNNING
              /\ watch[i].fired = watch[i].n \div timers[i].period_ticks
              /\ timers[i].expiry_count = watch[i].fired

\* C19: n ticks after the start or reset that set it going, a PERIODIC timer
\* of period P that was not stopped or retuned is RUNNING and its callback has
\* been invoked floor(n / P) times, that is on the ticks k*P after the start;
\* expiry_count goes up by one with every invocation and changes on no other
\* step, so it has grown by floor(n / P) since the start.
C19_PeriodicFires ==
    [][\A i \in Slots :
          (/\ watch'[i].tracked
           /\ timers'[i].handle # 0
           /\ timers'[i].type = TIMER_PERIODIC)
             => /\ timers'[i].state = TIMER_RUNNING
                /\ watch'[i].fired = watch'[i].n \div timers'[i].period_ticks
                /\ timers'[i].handle = timers[i].handle
                     => (timers'[i].expiry_count - timers[i].expiry_count) % ExpiryWrap
                           = IF TimerTick THEN watch'[i].fired - watch[i].fired ELSE 0]_vars

\* A periodic timer of the longest period has run for MaxTicks ticks since it
\* was started again after an earlier run in which it had expired.
C19_Witness ==
    \E i \in Slots :
        /\ Watched(i, TIMER_PERIODIC)
        /\ timers[i].period_ticks = MaxPeriod
        /\ watch[i].n = MaxTicks
        /\ watch[i].fired = MaxTicks \div MaxPeriod
        /\ timers[i].expiry_count > watch[i].fired

\* C20: a ONE_SHOT timer of period P that was started and since then neither
\* restarted, stopped nor retuned has not fired and is RUNNING before the
\* P-th tick after the start, and from the P-th tick on it has fired exactly
\* once and is STOPPED.
C20_OneShotFiresOnce ==
    \A i \in Slots :
        Watched(i, TIMER_ONE_SHOT)
           => IF watch[i].n < timers[i].period_ticks
              THEN /\ watch[i].fired = 0
                   /\ timers[i].state = TIMER_RUNNING
                   /\ timers[i].remaining_ticks = timers[i].period_ticks - watch[i].n
              ELSE /\ watch[i].fired = 1
                   /\ timers[i].state = TIMER_STOPPED

\* A one-shot timer of the longest period, MaxTicks ticks after its start: it
\* fired once and more ticks followed.
C20_Witness ==
    \E i \in Slots :
        /\ Watched(i, TIMER_ONE_SHOT)
        /\ timers[i].period_ticks = MaxPeriod
        /\ watch[i].n = MaxTicks
        /\ watch[i].fired = 1
        /\ timers[i].state = TIMER_STOPPED
        /\ timers[i].expiry_count = 1

\* A timer with handle h exists (timer.h: handle 0 is "no timer").
Existing(h) == h # 0 /\ \E i \in Slots : timers[i].handle = h

\* C21: reset(h) on an existing timer, whatever its state, leaves it RUNNING
\* with remaining_ticks = period_ticks; a ONE_SHOT timer of period P that was
\* reset and since then neither restarted, stopped nor retuned has not fired
\* before the P-th tick after the reset, has fired exactly once on the P-th
\* tick, and does not fire afterwards.
C21_ResetReloads ==
    [][/\ \A h \in Handles :
             (ResetTimer(h) /\ Existing(h))
                => /\ ret' = RTOS_OK
                   /\ timers'[findTimer(h)].state = TIMER_RUNNING
                   /\ timers'[findTimer(h)].remaining_ticks
                         = timers[findTimer(h)].period_ticks
                   /\ timers'[findTimer(h)].period_ticks
                         = timers[findTimer(h)].period_ticks
       /\ \A i \in Slots :
             (/\ watch'[i].tracked
              /\ watch'[i].by = "reset"
              /\ timers'[i].handle # 0
              /\ timers'[i].type = TIMER_ONE_SHOT)
                => IF watch'[i].n < timers'[i].period_ticks
                   THEN /\ watch'[i].fired = 0
                        /\ timers'[i].state = TIMER_RUNNING
                        /\ timers'[i].remaining_ticks
                              = timers'[i].period_ticks - watch'[i].n
                   ELSE /\ watch'[i].fired = 1
                        /\ timers'[i].state = TIMER_STOPPED]_vars

\* A one-shot timer of the longest period that had fired before was reset;
\* MaxTicks ticks after the reset it has fired once more and is STOPPED.
C21_Witness ==
    \E i \in Slots :
        /\ Watched(i, TIMER_ONE_SHOT)
        /\ watch[i].by = "reset"
        /\ timers[i].period_ticks = MaxPeriod
        /\ watch[i].n = MaxTicks
        /\ watch[i].fired = 1
        /\ timers[i].expiry_count = 2
        /\ timers[i].state = TIMER_STOPPED

\* C22 (as claimed): after start(h) on an existing timer returns RTOS_OK the
\* timer is RUNNING with remaining_ticks = period_ticks, whatever its state and
\* remaining_ticks were before the call.
C22_StartReloads ==
    [][\A h \in Handles :
          (StartTimer(h) /\ Existing(h) /\ ret' = RTOS_OK)
             => /\ timers'[findTimer(h)].state = TIMER_RUNNING
                /\ timers'[findTimer(h)].remaining_ticks
                      = timers'[findTimer(h)].period_ticks]_vars

\* C23: stop(h) on an existing timer sets its state to STOPPED and changes
\* nothing else of it (remaining_ticks, period_ticks and expiry_count stay);
\* a tick leaves every STOPPED timer as it is, does not invoke its callback,
\* and counts no callback when every existing timer is STOPPED.
C23_StopFreezes ==
    [][/\ \A h \in Handles :
             (StopTimer(h) /\ Existing(h))
                => /\ ret' = RTOS_OK
                   /\ timers' = [timers EXCEPT ![findTimer(h)].state = TIMER_STOPPED]
       /\ TimerTick
             => /\ \A i \in Slots :
                      (timers[i].handle # 0 /\ timers[i].state = TIMER_STOPPED)
                         => timers'[i] = timers[i] /\ i \notin Invoked
                /\ (\A i \in Slots :
                       timers[i].handle # 0 => timers[i].state = TIMER_STOPPED)
                      => total_callbacks' = total_callbacks]_vars

\* A timer stopped in the middle of its period: part of the period is left.
C23_Witness ==
    /\ ret = RTOS_OK
    /\ \E i \in Slots :
          /\ timers[i].handle # 0
          /\ timers[i].state = TIMER_STOPPED
          /\ timers[i].remaining_ticks > 0
          /\ timers[i].remaining_ticks < timers[i].period_ticks

\* The slots that hold a timer in the manager m.
ExistingSlots(m) == {i \in Slots : m.timers[i].handle # 0}

\* C24 (as claimed): create returns 0 and adds no timer exactly when the period
\* is 0, the callback is null or MAX_TIMERS timers exist; otherwise it returns
\* a nonzero handle that no existing timer has, and the new timer is STOPPED.
C24_CreateResult ==
    [][\A p \in 0 .. MaxPeriod, ty \in {TIMER_ONE_SHOT, TIMER_PERIODIC}, cb \in BOOLEAN :
          CreateTimer(p, ty, cb)
             => IF p = 0 \/ ~cb \/ Cardinality(ExistingSlots(Inited)) = MaxTimers
                THEN handle_ret' = 0 /\ timers' = Inited.timers
                ELSE /\ handle_ret' # 0
                     /\ \A i \in ExistingSlots(Inited) :
                           /\ Inited.timers[i].handle # handle_ret'
                           /\ timers'[i] = Inited.timers[i]
                     /\ \E i \in Slots \ ExistingSlots(Inited) :
                           /\ timers'[i].handle = handle_ret'
                           /\ timers'[i].state = TIMER_STOPPED]_vars

\* C25 (as claimed): destroy, start, stop, reset and changePeriod called with
\* handle 0 or with a handle that no existing timer has return
\* RTOS_ERR_INVALID_PARAM and leave every slot and the timer count unchanged,
\* and the timer count always equals the number of existing timers.
C25_BadHandleRejected ==
    [][/\ \A h \in Handles :
             (/\ ~Existing(h)
              /\ \/ DeleteTimer(h)
                 \/ StartTimer(h)
                 \/ StopTimer(h)
                 \/ ResetTimer(h)
                 \/ \E p \in 0 .. MaxPeriod : ChangeTimerPeriod(h, p))
                => /\ ret' = RTOS_ERR_INVALID_PARAM
                   /\ timers' = timers
                   /\ timer_count' = timer_count
       /\ timer_count' = Cardinality({i \in Slots : timers'[i].handle # 0})]_vars

\* C26 (as claimed): after any sequence of malloc, free and realloc,
\* stats.total_size = stats.free_size + stats.allocated_size.
C26_StatsBalance ==
    heap_status = "ok" => stats.total_size = stats.free_size + stats.allocated_size

\* C27 (as claimed): after any sequence of malloc, free, realloc, calloc and
\* defragment on pointers the heap returned and that are still allocated,
\* checkIntegrity() terminates and returns true.
C27_IntegrityHolds ==
    heap_status = "ok" => checkIntegrity(Heap) = "true"

\* The heap is one free block that covers the arena.
OneFreeBlock(h) ==
    /\ h.first_block = heap_start
    /\ Field(h, heap_start, "is_free") = 1
    /\ Field(h, heap_start, "next") = NullBlock
    /\ Field(h, heap_start, "size") = heap_size - sizeofHeapBlock
    /\ h.stats.num_blocks = 1
    /\ h.stats.allocated_size = 0

\* C28 (as claimed): once every pointer that malloc, realloc and calloc
\* returned has been freed, the heap is one free block that covers the arena:
\* num_blocks = 1, allocated_size = 0 and the block's size is the arena size
\* minus one header.
C28_AllFreedOneBlock ==
    (heap_status = "ok" /\ outstanding = {}) => OneFreeBlock(Heap)

\* C29: free on a non-null pointer whose header fails validation (no magic
\* word, or an address outside the arena) or whose block is already free
\* changes nothing of the heap: the arena with the chain and the free flags,
\* first_block, last_block and every statistic, num_frees included.
C29_BadFreeNoChange ==
    [][\A ptr \in Pointers :
          (/\ ptr # NullBlock
           /\ \/ ~validateBlock(Heap, ptr - sizeofHeapBlock)
              \/ Field(Heap, ptr - sizeofHeapBlock, "is_free") = 1
           /\ Free(ptr))
             => /\ UNCHANGED <<arena, first_block, last_block, stats, heap_status>>
                /\ heap_log' \in {InvalidBlock, DoubleFree}]_vars

\* The one allocated block was freed and then freed again: free() reported
\* the double free, and one free is counted.
C29_Witness ==
    /\ heap_status = "ok"
    /\ heap_log = DoubleFree
    /\ stats.num_allocations = 1
    /\ stats.num_frees = 1
    /\ stats.allocated_size = 0

\* C30: after any sequence of allocate and deallocate, allocated_count plus
\* the free count is POOL_SIZE, allocated_count is the number of slots flagged
\* allocated, and the free list, which ends in null, holds exactly the slots
\* not flagged allocated, each once; allocate never returns a slot that is
\* still allocated.
C30_PoolInvariant ==
    /\ [](/\ allocated_count + get_free_count = PoolSize
          /\ allocated_count \in 0 .. PoolSize
          /\ allocated_count = Cardinality({i \in PoolSlots : pool[i].allocated})
          /\ EndsInNull(free_list, PoolSize)
          /\ Len(FreeList) = get_free_count
          /\ Range(FreeList) = {i \in PoolSlots : ~pool[i].allocated})
    /\ [][(Allocate /\ pool_ret' # NullSlot)
             => /\ ~pool[pool_ret'].allocated
                /\ pool'[pool_ret'].allocated]_vars

\* Slots were given back out of order and one was handed out again: slot 2
\* heads the free list in front of slot 1, and slot 3 is allocated while
\* slot 4 has never been.
C30_Witness ==
    /\ free_list = 2
    /\ pool[2].next_free = 1
    /\ pool[3].allocated
    /\ pool_ret = 3
    /\ allocated_count = 1

\* C31: deallocate called with a null pointer, with a pointer that is the
\* storage of no slot of the pool, or with the storage of a slot that is not
\* allocated leaves allocated_count, the free list and every allocated flag
\* (the whole pool array, the links included) unchanged.
C31_BadDeallocateNoChange ==
    [][\A ptr \in 0 .. PoolSize + 1 :
          (/\ \/ ptr = NullSlot
              \/ ptr \notin PoolSlots
              \/ ~pool[ptr].allocated
           /\ Deallocate(ptr))
             => UNCHANGED <<pool, free_list, allocated_count>>]_vars

\* Slot 1 was given back and then passed to deallocate a second time while
\* slot 2 is still allocated: the second call returned nothing to the list.
C31_Witness ==
    /\ pool_gone = [ptr |-> 1, returned |-> FALSE]
    /\ ~pool[1].allocated
    /\ free_list = 1
    /\ pool[2].allocated
    /\ allocated_count = 1

\* C32: a task that is SUSPENDED stays SUSPENDED through every step of the
\* scheduler and of the tasks (tick, yield, delay, start, and create, suspend
\* and resume of other tasks) for as long as it exists; no step makes it
\* RUNNING or current_task; the one step that changes its state is its
\* resume(), which makes it READY.
C32_SuspendedStays ==
    [][\A t \in Addr :
          (t \in live /\ state[t] = TASK_SUSPENDED /\ t \in live')
             => /\ state'[t] = TASK_SUSPENDED
                   \/ (ResumeTask(t) /\ state'[t] = TASK_READY)
                /\ current_task' # t]_vars

\* A task that has called delay is SUSPENDED with the deadline of that
\* delay behind the tick count, while another task runs.
C32_Witness ==
    /\ is_running
    /\ policy = SCHEDULER_ROUND_ROBIN
    /\ \E t \in live, u \in live :
          /\ t # u
          /\ state[t] = TASK_SUSPENDED
          /\ blocked_until[t] > 0
          /\ tick_count > blocked_until[t]
          /\ state[u] = TASK_RUNNING
          /\ current_task = u

\* C33 (as claimed): under ROUND_ROBIN with ticks arriving for ever and no
\* call of yield, a registered task that is READY while the idle task is
\* RUNNING eventually becomes RUNNING.
C33_ReadyGetsCpu ==
    \A t \in Addr :
        (/\ policy = SCHEDULER_ROUND_ROBIN
         /\ is_running
         /\ current_task = IdleTcb
         /\ state[IdleTcb] = TASK_RUNNING
         /\ t \in Range(task_list)
         /\ state[t] = TASK_READY)
            ~> (state[t] = TASK_RUNNING)

\* C34 (as claimed): under ROUND_ROBIN a yield by the RUNNING registered
\* task C makes RUNNING the first task, in registration order from just
\* after C round to C itself, that is READY or is C; the idle task is taken
\* only when there is none, which with C in the round never happens.
C34_YieldCyclic ==
    [][(/\ Yield
        /\ is_running
        /\ policy = SCHEDULER_ROUND_ROBIN
        /\ current_task \in Range(task_list)
        /\ current_task \in live
        /\ state[current_task] = TASK_RUNNING)
          => /\ current_task' =
                   RoundRobinNext(current_task,
                                  {t \in Addr : state[t] = TASK_READY} \cup {current_task})
             /\ state'[current_task'] = TASK_RUNNING]_vars

IsTop(t) == \A u \in Range(task_list) : priority[u] <= priority[t]
TopTasks == SelectSeq(task_list, IsTop)

\* C36 (as claimed): under PRIORITY with two or more registered tasks of
\* the same, highest priority, all runnable, a yield by the one of them that
\* runs hands the CPU to the next of them in registration order (to the
\* first after the last), so that they run in rotation and none runs a
\* second time before each of the others has run once.
C36_EqualPriorityRotates ==
    [][(/\ Yield
        /\ is_running
        /\ policy = SCHEDULER_PRIORITY
        /\ Len(TopTasks) >= 2
        /\ current_task \in Range(TopTasks)
        /\ state[current_task] = TASK_RUNNING
        /\ \A t \in Range(TopTasks) : state[t] \in {TASK_READY, TASK_RUNNING})
          => \E i \in 1 .. Len(TopTasks) :
                /\ TopTasks[i] = current_task
                /\ current_task' = TopTasks[(i % Len(TopTasks)) + 1]
                /\ state'[current_task'] = TASK_RUNNING]_vars

\* The chain from block b on tiles the arena from b to its end: the header
\* and payload of each block end where the header of its next begins, and
\* the last block ends at the end of the buffer.
RECURSIVE TilesFrom(_, _, _)
TilesFrom(h, b, fuel) ==
    /\ fuel > 0
    /\ Inside(b)
    /\ IsSize(Field(h, b, "size"))
    /\ IF Field(h, b, "next") = NullBlock
       THEN b + sizeofHeapBlock + Field(h, b, "size") = heap_end
       ELSE /\ Field(h, b, "next") = b + sizeofHeapBlock + Field(h, b, "size")
            /\ TilesFrom(h, Field(h, b, "next"), fuel - 1)

\* The block malloc(size) takes exceeds the rounded request by less than a
\* header plus MIN_BLOCK_SIZE.
TightFit(h, size) ==
    /\ size > 0
    /\ findFreeBlock(h, Align(size)).status = "ok"
    /\ findFreeBlock(h, Align(size)).block # NullBlock
    /\ Field(h, findFreeBlock(h, Align(size)).block, "size") - Align(size)
          < sizeofHeapBlock + MIN_BLOCK_SIZE

\* C37 (as claimed): after any sequence of malloc and free the chain starts
\* at the arena start and tiles the arena exactly, and a malloc whose block
\* exceeds the rounded request by less than a header plus MIN_BLOCK_SIZE
\* does not split the block: num_blocks is unchanged.
C37_ChainTilesArena ==
    /\ [](heap_status = "ok"
             => /\ first_block = heap_start
                /\ TilesFrom(Heap, first_block, HeapWords))
    /\ [][\A size \in Requests :
             (heap_status = "ok" /\ TightFit(Heap, size) /\ Malloc(size))
                => stats'.num_blocks = stats.num_blocks]_vars

\* Caller c is between lock() and unlock() of an operation; caller c is at
\* code that reads or writes the headers of the chain.
Holding(c) == heap_pc[c] \in {"body", "unlock"}
OnChain(c) == heap_pc[c] \in {"body", "check", "copy"}

\* C38 (as claimed): under every interleaving of the callers at most one of
\* them is between lock() and unlock(), and a caller that reads or writes
\* the block chain is between lock() and unlock().
C38_HeapLockExcludes ==
    /\ Cardinality({c \in Callers : Holding(c)}) <= 1
    /\ \A c \in Callers : OnChain(c) => Holding(c)

\* C39: in every state between two calls (a tick is one step, so no state
\* lies inside its firing), every timer, a slot with a nonzero handle, whose
\* state is RUNNING has 0 < remaining_ticks <= period_ticks.
C39_RunningInRange ==
    \A i \in Slots :
        (timers[i].handle # 0 /\ timers[i].state = TIMER_RUNNING)
            => /\ 0 < timers[i].remaining_ticks
               /\ timers[i].remaining_ticks <= timers[i].period_ticks

\* A periodic timer that has fired, was reloaded and is in mid-period again.
C39_Witness ==
    \E i \in Slots :
        /\ timers[i].handle # 0
        /\ timers[i].state = TIMER_RUNNING
        /\ timers[i].expiry_count > 0
        /\ 0 < timers[i].remaining_ticks
        /\ timers[i].remaining_ticks < timers[i].period_ticks

\* The ring of the Queue: count, head and tail in range and tail count
\* slots after head.
RingInv ==
    /\ 0 <= queue.count /\ queue.count <= MaxItems
    /\ queue.head < MaxItems
    /\ queue.tail < MaxItems
    /\ queue.tail = (queue.head + queue.count) % MaxItems

\* C40: after any sequence of enqueue, dequeue, peek and clear on a
\* Queue<T, N>, 0 <= count <= N, head < N, tail < N and
\* tail = (head + count) mod N; a peek changes none of head, tail and count.
C40_RingInvariant ==
    /\ []RingInv
    /\ [][Peek => /\ queue'.head = queue.head
                  /\ queue'.tail = queue.tail
                  /\ queue'.count = queue.count]_vars

\* A full queue whose head and tail have both moved off slot 0, with the
\* value at its front as the one last read.
C40_Witness ==
    /\ queue.head = 1
    /\ queue.count = MaxItems
    /\ item = front(queue)
    /\ ret = "true"

====
